---- MODULE Spec2Model ----
(***************************************************************************)
(* Model of the MCP server of the authentication service: the alert table  *)
(* (routes/alerts.py), the event store and ingestion (routes/ingest.py)    *)
(* and the fraud detector (fraud_detector.py).                             *)
(*                                                                         *)
(* Conventions                                                             *)
(*  - instants are whole minutes; `now` is datetime.utcnow()               *)
(*  - risk scores are in tenths (7 is 0.7, 10 is 1.0)                      *)
(*  - a text is a sequence of one-character strings, so that Python's      *)
(*    substring test and f-string concatenation are computed, not assumed  *)
(*  - a row id (uuid4 in the code) is the row's position in its table      *)
(***************************************************************************)
EXTENDS Integers, Sequences, FiniteSets, TLC

VARIABLES
  alerts,        \* table mcp_alerts, in insertion order
  now,           \* the wall clock
  resp,          \* the answer to the last alert request
  sess,          \* per request running create_alert in steps: its position and loaded row
  calls,         \* requests started so far
  events,        \* table mcp_auth_events, in insertion order
  baml_enabled,  \* FraudDetector.baml_enabled
  iresp,         \* the answer to the last ingestion request
  assessed,      \* the last call made on FraudDetector.analyze_event itself:
                 \* its arguments, the values of its queries and its result
  qresp,         \* the answer to the last query request, with its parameters
  users,         \* auth service: table users
  totp_attempts, \* auth service: table totp_attempts, in insertion order
  reset_tokens,  \* auth service: table password_reset_tokens
  auth_events,   \* auth service: table auth_events, in insertion order
  aresp,         \* the answer to the last auth request, with its arguments
  is_local_env,  \* ENVIRONMENT is one of local, development, dev
  confirms       \* auth service: per request running password_reset_confirm
                 \* in steps: its position, the token row it read, its answer

vars == <<alerts, now, resp, sess, calls, events, baml_enabled, iresp, assessed,
          qresp, users, totp_attempts, reset_tokens, auth_events, aresp,
          is_local_env, confirms>>
alertVars == <<alerts, resp, sess>>
ingestVars == <<events, baml_enabled, iresp, assessed>>
queryVars == <<qresp>>
authVars == <<users, totp_attempts, reset_tokens, auth_events, aresp, is_local_env,
              confirms>>
sideVars == <<queryVars, authVars>>

\* ---------------------------------------------------------------- bounds
MaxAlerts == 3
MaxTime == 6
MaxCalls == 2
MaxIngest == 1
ClockStep == 2

\* ------------------------------------------------------- program constants
ALERT_CONSOLIDATION_WINDOW_MINUTES == 5
MAX_EVENTS_PER_ALERT == 10

\* ------------------------------------------------------------ input sets
Users == {1, 2}
\* event ids named in alert requests (kept apart from the positions of the
\* rows of the event table)
SeedEventIds == [i \in 1..(MAX_EVENTS_PER_ALERT - 1) |-> 100 + i]
EventIds == {100 + MAX_EVENTS_PER_ALERT, 101 + MAX_EVENTS_PER_ALERT}
Scores == {7, 9}
Reasons == {<<"x">>, <<"x", "y">>}
Statuses == {"open", "reviewed", "resolved"}
BadStatus == "closed"
Procs == {"p1", "p2"}

\* what a request asked for; status is the body of a status update
NoArgs == [user_id |-> 0, event_id |-> 0, risk_score |-> 0, reason |-> <<>>,
           status |-> "none"]
NoRow == [id |-> 0]

\* the last completed request: what was asked and what was answered
NoResp == [op |-> "none", code |-> 0, alert_id |-> 0, consolidated |-> FALSE,
           args |-> NoArgs]

Max(a, b) == IF a >= b THEN a ELSE b

\* Python `s in t` for strings
IsSubstring(s, t) ==
  \E i \in 0..(Len(t) - Len(s)) : SubSeq(t, i + 1, i + Len(s)) = s

\* f"{old}; {new}"
JoinReason(old, new) == old \o <<";", " ">> \o new

\* the query without its created_at bound
OpenInWindow_NoWindow(tbl, user_id, t) ==
  { i \in 1..Len(tbl) : tbl[i].user_id = user_id /\ tbl[i].status = "open" }

\* the rows the query of create_alert selects: same user, open, created
\* at or after utcnow() - window
OpenInWindow(tbl, user_id, t) ==
  { i \in 1..Len(tbl) :
      /\ tbl[i].user_id = user_id
      /\ tbl[i].status = "open"
      /\ tbl[i].created_at >= t - ALERT_CONSOLIDATION_WINDOW_MINUTES }

\* the attach test without its length bound
CanAttach_NoCap(row, event_id) ==
  \A k \in 1..Len(row.event_ids) : row.event_ids[k] # event_id

\* `if event_id not in event_ids and len(event_ids) < MAX_EVENTS_PER_ALERT`
CanAttach(row, event_id) ==
  /\ \A k \in 1..Len(row.event_ids) : row.event_ids[k] # event_id
  /\ Len(row.event_ids) < MAX_EVENTS_PER_ALERT

\* the reason appended whether or not the alert already holds it
MergedReason_Always(row, reason) ==
  JoinReason(row.reason, reason)

\* lines 124-126: `if reason not in existing_alert.reason`, the f-string
MergedReason(row, reason) ==
  IF ~IsSubstring(reason, row.reason) THEN JoinReason(row.reason, reason) ELSE row.reason

\* the flush with the new score stored instead of the maximum
MergeCommit_Overwrite(tbl, row, event_id, risk_score, reason, t, json_flushed) ==
  [tbl EXCEPT ![row.id] =
     [@ EXCEPT !.event_ids = IF json_flushed THEN Append(row.event_ids, event_id) ELSE @,
               !.risk_score = risk_score,
               !.updated_at = t]]

\* The flush of the consolidation branch.  `row` is the object the session
\* loaded; the UPDATE carries only the columns whose value differs from the
\* loaded one, and db.refresh() then reloads the row.  event_ids is a plain
\* JSON column (models.py:63) whose list is appended to in place and assigned
\* back as the same object: the unit of work compares the attribute with the
\* value it recorded as old, which is that same list, so the column is left
\* out of the UPDATE (json_flushed = FALSE) unless the mapping tracks the
\* mutation (json_flushed = TRUE).  updated_at is always written.
MergeCommit(tbl, row, event_id, risk_score, reason, t, json_flushed) ==
  [tbl EXCEPT ![row.id] =
     [@ EXCEPT !.event_ids = IF json_flushed THEN Append(row.event_ids, event_id) ELSE @,
               !.risk_score = IF Max(row.risk_score, risk_score) # row.risk_score
                                THEN Max(row.risk_score, risk_score) ELSE @,
               !.reason = IF MergedReason(row, reason) # row.reason
                            THEN MergedReason(row, reason) ELSE @,
               !.updated_at = t]]

\* the new alert inserted as already reviewed
NewAlert_Reviewed(tbl, user_id, event_id, risk_score, reason, t) ==
  [id |-> Len(tbl) + 1, user_id |-> user_id, event_ids |-> <<event_id>>,
   risk_score |-> risk_score, reason |-> reason, status |-> "reviewed",
   created_at |-> t, updated_at |-> t]

\* lines 135-146: the row of a new alert
NewAlert(tbl, user_id, event_id, risk_score, reason, t) ==
  [id |-> Len(tbl) + 1, user_id |-> user_id, event_ids |-> <<event_id>>,
   risk_score |-> risk_score, reason |-> reason, status |-> "open",
   created_at |-> t, updated_at |-> t]

InsertCommit(tbl, user_id, event_id, risk_score, reason, t) ==
  Append(tbl, NewAlert(tbl, user_id, event_id, risk_score, reason, t))

\* the last ingestion request: what was answered, and which commit failed
NoIngestResp == [code |-> 0, event_id |-> 0, status |-> "none", fault |-> "none"]

NoAssessed == [op |-> "none"]

\* no query answered yet
NoQueryResp == [op |-> "none"]

\* pwd_context.hash and pwd_context.verify (pbkdf2_sha256; the salt is left out)
hash_password(password) == [scheme |-> "pbkdf2_sha256", of |-> password]
verify_password(plain_password, hashed_password) ==
  hashed_password.scheme = "pbkdf2_sha256" /\ hashed_password.of = plain_password

NoAuthResp == [op |-> "none"]

\* two users as /register leaves them: 2FA enabled, a TOTP secret set
RegisteredUser(id, username, email) ==
  [id |-> id, username |-> username, email |-> email,
   password |-> hash_password("pw"), is_2fa_enabled |-> TRUE,
   totp_secret |-> "s1"]
RegisteredUsers == << RegisteredUser(1, "u1", "e1"), RegisteredUser(2, "u2", "e2") >>

\* a password_reset_confirm request that has not started
IdleConfirm ==
  [pc |-> "idle", token |-> 0, new_password |-> "", row |-> 0, user_id |-> 0,
   code |-> 0]

\* the auth service before any request of a run
AuthIdle ==
  /\ confirms = [p \in Procs |-> IdleConfirm]
  /\ users = RegisteredUsers
  /\ totp_attempts = <<>>
  /\ reset_tokens = <<>>
  /\ auth_events = <<>>
  /\ aresp = NoAuthResp
  /\ is_local_env = FALSE

\* the state of the parts a specification does not exercise
SideInit == qresp = NoQueryResp /\ AuthIdle

\* ------------------------------------------------------------------ Init
\* an alert table as earlier requests left it: empty, or one open alert of
\* user 1 one event short of the attachment cap
SeedAlert ==
  [id |-> 1, user_id |-> 1, event_ids |-> SeedEventIds, risk_score |-> 7,
   reason |-> <<"x">>, status |-> "open", created_at |-> 0, updated_at |-> 0]

\* two open alerts of user 1 inside the window, as a request repeated
\* ClockStep minutes after the first one leaves them
TwoOpenAlerts ==
  << [id |-> 1, user_id |-> 1, event_ids |-> <<SeedEventIds[1]>>,
      risk_score |-> 7, reason |-> <<"x">>, status |-> "open",
      created_at |-> 0 - ClockStep, updated_at |-> 0 - ClockStep],
     [id |-> 2, user_id |-> 1, event_ids |-> <<SeedEventIds[1]>>,
      risk_score |-> 7, reason |-> <<"x">>, status |-> "open",
      created_at |-> 0, updated_at |-> 0] >>

AlertSeeds == {<<>>, <<SeedAlert>>, TwoOpenAlerts}

IdleSess ==
  [pc |-> "idle", args |-> NoArgs, row |-> NoRow, overlapped |-> FALSE,
   created |-> 0]

Init ==
  /\ alerts \in AlertSeeds
  /\ now = 0
  /\ resp = NoResp
  /\ sess = [p \in Procs |-> IdleSess]
  /\ calls = 0
  /\ events = <<>>
  /\ baml_enabled = FALSE
  /\ iresp = NoIngestResp
  /\ assessed = NoAssessed
  /\ SideInit

\* ------------------------------------------------------------- actions
Args(user_id, event_id, risk_score, reason) ==
  [user_id |-> user_id, event_id |-> event_id, risk_score |-> risk_score,
   reason |-> reason, status |-> "none"]

\* create_alert run to completion (one request, nothing interleaved).
\* Query.first() has no ORDER BY: any selected row may be returned.
create_alert(user_id, event_id, risk_score, reason, json_flushed) ==
  /\ \/ /\ \E i \in OpenInWindow(alerts, user_id, now) :
             /\ CanAttach(alerts[i], event_id)
             /\ alerts' = MergeCommit(alerts, alerts[i], event_id, risk_score,
                                      reason, now, json_flushed)
             /\ resp' = [op |-> "create_alert", code |-> 201, alert_id |-> i,
                         consolidated |-> TRUE,
                         args |-> Args(user_id, event_id, risk_score, reason)]
     \/ /\ \/ OpenInWindow(alerts, user_id, now) = {}
           \/ \E i \in OpenInWindow(alerts, user_id, now) : ~CanAttach(alerts[i], event_id)
        /\ Len(alerts) < MaxAlerts
        /\ alerts' = InsertCommit(alerts, user_id, event_id, risk_score, reason, now)
        /\ resp' = [op |-> "create_alert", code |-> 201, alert_id |-> Len(alerts) + 1,
                    consolidated |-> FALSE,
                    args |-> Args(user_id, event_id, risk_score, reason)]
  /\ UNCHANGED <<now, sess, ingestVars, sideVars>>

CreateAlert ==
  /\ calls < MaxCalls
  /\ calls' = calls + 1
  /\ \E u \in Users, e \in EventIds, s \in Scores, r \in Reasons, f \in BOOLEAN :
       create_alert(u, e, s, r, f)

\* the update putting the alert back as a new one
StatusCommit_Reset(tbl, alert_id, status, t) ==
  [tbl EXCEPT ![alert_id] =
     [@ EXCEPT !.status = status, !.updated_at = t, !.created_at = t]]

\* lines 287-291: status and updated_at assigned on the loaded row, commit
StatusCommit(tbl, alert_id, status, t) ==
  [tbl EXCEPT ![alert_id] = [@ EXCEPT !.status = status, !.updated_at = t]]

\* the update accepted only for an alert that is still open
update_alert_status_OpenOnly(alert_id, status) ==
  /\ IF status \notin Statuses
       THEN /\ resp' = [op |-> "update", code |-> 422, alert_id |-> alert_id,
                        consolidated |-> FALSE,
                        args |-> [NoArgs EXCEPT !.status = status]]
            /\ UNCHANGED alerts
       ELSE IF alert_id \notin 1..Len(alerts) \/ alerts[alert_id].status # "open"
         THEN /\ resp' = [op |-> "update", code |-> 404, alert_id |-> alert_id,
                          consolidated |-> FALSE,
                          args |-> [NoArgs EXCEPT !.status = status]]
              /\ UNCHANGED alerts
         ELSE /\ alerts' = StatusCommit(alerts, alert_id, status, now)
              /\ resp' = [op |-> "update", code |-> 200, alert_id |-> alert_id,
                          consolidated |-> FALSE,
                          args |-> [NoArgs EXCEPT !.status = status]]
  /\ UNCHANGED <<now, sess, ingestVars, sideVars>>

\* PATCH /mcp/alerts/{alert_id}: the body is validated first (422), then the
\* row is looked up (404), then status and updated_at are written.
update_alert_status(alert_id, status) ==
  /\ IF status \notin Statuses
       THEN /\ resp' = [op |-> "update", code |-> 422, alert_id |-> alert_id,
                        consolidated |-> FALSE,
                        args |-> [NoArgs EXCEPT !.status = status]]
            /\ UNCHANGED alerts
       ELSE IF alert_id \notin 1..Len(alerts)
         THEN /\ resp' = [op |-> "update", code |-> 404, alert_id |-> alert_id,
                          consolidated |-> FALSE,
                          args |-> [NoArgs EXCEPT !.status = status]]
              /\ UNCHANGED alerts
         ELSE /\ alerts' = StatusCommit(alerts, alert_id, status, now)
              /\ resp' = [op |-> "update", code |-> 200, alert_id |-> alert_id,
                          consolidated |-> FALSE,
                          args |-> [NoArgs EXCEPT !.status = status]]
  /\ UNCHANGED <<now, sess, ingestVars, sideVars>>

UpdateAlertStatus ==
  /\ calls < MaxCalls
  /\ calls' = calls + 1
  /\ \E a \in 1..(Len(alerts) + 1), s \in Statuses \cup {BadStatus} :
       update_alert_status(a, s)

\* the wall clock advances
Tick ==
  /\ now + ClockStep <= MaxTime
  /\ now' = now + ClockStep
  /\ UNCHANGED <<alerts, resp, sess, calls, ingestVars, sideVars>>

\* ---- create_alert as two steps of a request running beside another one:
\* the SELECT of lines 102-108, then everything up to the commit.
BeginCreateAlert(p) ==
  /\ sess[p].pc = "idle"
  /\ calls < MaxCalls
  /\ calls' = calls + 1
  /\ \E u \in Users, e \in EventIds, s \in Scores, r \in Reasons :
       \E row \in IF OpenInWindow(alerts, u, now) = {} THEN {NoRow}
                  ELSE {alerts[i] : i \in OpenInWindow(alerts, u, now)} :
         sess' = [sess EXCEPT ![p] =
                    [pc |-> "looked", args |-> Args(u, e, s, r), row |-> row,
                     overlapped |-> \E q \in Procs \ {p} : sess[q].pc = "looked",
                     created |-> 0]]
  /\ UNCHANGED <<alerts, now, resp, ingestVars, sideVars>>

FinishCreateAlert(p) ==
  /\ sess[p].pc = "looked"
  /\ LET a == sess[p].args
         row == sess[p].row
     IN IF row # NoRow /\ CanAttach(row, a.event_id)
          THEN \E f \in BOOLEAN :
                 /\ alerts' = MergeCommit(alerts, row, a.event_id, a.risk_score,
                                          a.reason, now, f)
                 /\ resp' = [op |-> "create_alert", code |-> 201,
                             alert_id |-> row.id, consolidated |-> TRUE, args |-> a]
                 /\ sess' = [sess EXCEPT ![p].pc = "done"]
          ELSE /\ Len(alerts) < MaxAlerts
               /\ alerts' = InsertCommit(alerts, a.user_id, a.event_id,
                                         a.risk_score, a.reason, now)
               /\ resp' = [op |-> "create_alert", code |-> 201,
                           alert_id |-> Len(alerts) + 1, consolidated |-> FALSE,
                           args |-> a]
               /\ sess' = [sess EXCEPT ![p].pc = "done",
                                       ![p].created = Len(alerts) + 1]
  /\ UNCHANGED <<now, calls, ingestVars, sideVars>>

Begin == \E p \in Procs : BeginCreateAlert(p)
Finish == \E p \in Procs : FinishCreateAlert(p)

Next == CreateAlert \/ UpdateAlertStatus \/ Tick

Spec == Init /\ [][Next]_vars

NextConc == Begin \/ Finish \/ UpdateAlertStatus \/ Tick

SpecConc == Init /\ [][NextConc]_vars

\* ====================================================================
\* Event store, fraud detector and ingestion
\* ====================================================================
FRAUD_THRESHOLD == 7
CorrelationMinutes == 5

None == "None"
NoScore == -1
NoText == <<>>

EventTypes ==
  {"login_success", "login_failure", "2fa_success", "2fa_failure",
   "password_reset", "password_reset_request", "account_locked",
   "account_unlocked"}

\* the field constraints of AuthEventIn (timestamps of the model all parse)
ValidEvent(ev) == ev.user_id > 0 /\ ev.event_type \in EventTypes

\* the count with the upper end of the window closed
count_recent_events_Closed(store, user_id, event_type, since, before) ==
  Cardinality({ i \in 1..Len(store) :
                  /\ store[i].user_id = user_id
                  /\ store[i].event_type = event_type
                  /\ store[i].timestamp >= since
                  /\ store[i].timestamp <= before })

\* _count_recent_events: the rows of the subject and kind with
\* since <= timestamp < before
count_recent_events(store, user_id, event_type, since, before) ==
  Cardinality({ i \in 1..Len(store) :
                  /\ store[i].user_id = user_id
                  /\ store[i].event_type = event_type
                  /\ store[i].timestamp >= since
                  /\ store[i].timestamp < before })

\* the lookup without its ordering: any earlier successful login
LastSuccess_Any(store, user_id, before, field) ==
  { i \in 1..Len(store) :
      /\ store[i].user_id = user_id
      /\ store[i].event_type = "login_success"
      /\ store[i].timestamp < before
      /\ store[i][field] # None }

\* the rows `.order_by(timestamp.desc()).first()` may return: the subject's
\* login_success rows before `before` with the field set, latest timestamp
LastSuccess(store, user_id, before, field) ==
  LET cands == { i \in 1..Len(store) :
                   /\ store[i].user_id = user_id
                   /\ store[i].event_type = "login_success"
                   /\ store[i].timestamp < before
                   /\ store[i][field] # None }
  IN { i \in cands : \A j \in cands : store[j].timestamp <= store[i].timestamp }

\* the check reporting a change when there is no earlier successful login
check_ip_change_FirstLogin(store, user_id, current_ip, before) ==
  IF LastSuccess(store, user_id, before, "ip_address") = {} THEN {TRUE}
  ELSE { store[i].ip_address # current_ip :
           i \in LastSuccess(store, user_id, before, "ip_address") }

\* the values _check_ip_change can return
check_ip_change(store, user_id, current_ip, before) ==
  IF LastSuccess(store, user_id, before, "ip_address") = {} THEN {FALSE}
  ELSE { store[i].ip_address # current_ip :
           i \in LastSuccess(store, user_id, before, "ip_address") }

check_user_agent_change(store, user_id, current_ua, before) ==
  IF LastSuccess(store, user_id, before, "user_agent") = {} THEN {FALSE}
  ELSE { store[i].user_agent # current_ua :
           i \in LastSuccess(store, user_id, before, "user_agent") }

IpChanged(ev, store) ==
  IF ev.ip_address = None THEN {FALSE}
  ELSE check_ip_change(store, ev.user_id, ev.ip_address, ev.timestamp)

UaChanged(ev, store) ==
  IF ev.user_agent = None THEN {FALSE}
  ELSE check_user_agent_change(store, ev.user_id, ev.user_agent, ev.timestamp)

\* the failed logins counted up to five minutes after the event as well
FailedLogins_Ahead(ev, store) ==
  count_recent_events(store, ev.user_id, "login_failure",
                      ev.timestamp - CorrelationMinutes,
                      ev.timestamp + CorrelationMinutes)

\* lines 268-274: the failed logins of the five minutes before the event
FailedLogins(ev, store) ==
  count_recent_events(store, ev.user_id, "login_failure",
                      ev.timestamp - CorrelationMinutes, ev.timestamp)

\* the failed 2FA attempts of every subject counted
Failed2fa_AnySubject(ev, store) ==
  Cardinality({ i \in 1..Len(store) :
                  /\ store[i].event_type = "2fa_failure"
                  /\ store[i].timestamp >= ev.timestamp - CorrelationMinutes
                  /\ store[i].timestamp < ev.timestamp })

\* lines 287-293: the failed 2FA attempts of the five minutes before the event
Failed2fa(ev, store) ==
  count_recent_events(store, ev.user_id, "2fa_failure",
                      ev.timestamp - CorrelationMinutes, ev.timestamp)

\* the tiers with the first one starting above 3
LoginTier_Late(f) == IF f >= 11 THEN 7 ELSE IF f >= 6 THEN 5 ELSE IF f > 3 THEN 3 ELSE 0

\* lines 275-283: the addition of rule 1, one tier at most
LoginTier(f) == IF f >= 11 THEN 7 ELSE IF f >= 6 THEN 5 ELSE IF f >= 3 THEN 3 ELSE 0

TwoFaTier(f) == IF f >= 11 THEN 8 ELSE IF f >= 6 THEN 6 ELSE IF f >= 3 THEN 4 ELSE 0

LoginReason(f) ==
  IF f >= 11
    THEN <<<<"Severe brute force attack detected (", ToString(f),
             " failed logins in 5 minutes)">>>>
  ELSE IF f >= 6
    THEN <<<<"High number of failed login attempts (", ToString(f),
             " in 5 minutes)">>>>
  ELSE IF f >= 3
    THEN <<<<"Multiple failed login attempts (", ToString(f), " in 5 minutes)">>>>
  ELSE <<>>

TwoFaReason(f) ==
  IF f >= 11
    THEN <<<<"Severe 2FA brute force attack (", ToString(f),
             " failed attempts in 5 minutes)">>>>
  ELSE IF f >= 6
    THEN <<<<"High number of failed 2FA attempts (", ToString(f),
             " in 5 minutes)">>>>
  ELSE IF f >= 3
    THEN <<<<"Multiple failed 2FA attempts (", ToString(f), " in 5 minutes)">>>>
  ELSE <<>>

RECURSIVE JoinTexts(_)
\* "; ".join(reasons)
JoinTexts(texts) ==
  IF Len(texts) = 0 THEN <<>>
  ELSE IF Len(texts) = 1 THEN texts[1]
  ELSE texts[1] \o <<"; ">> \o JoinTexts(Tail(texts))

Min(a, b) == IF a <= b THEN a ELSE b

\* the field constraints of FraudAssessment, with every result accepted
WellFormed_Any(r) == TRUE

\* the field constraints of FraudAssessment: score and confidence in [0, 1]
WellFormed(r) ==
  /\ r.risk_score >= 0 /\ r.risk_score <= 10
  /\ r.confidence >= 0 /\ r.confidence <= 10

NoAssessment ==
  [risk_score |-> NoScore, email_notification |-> FALSE, reason |-> NoText,
   confidence |-> NoScore]

DefaultAssessment ==
  [risk_score |-> 0, email_notification |-> FALSE,
   reason |-> <<"Analysis failed - defaulting to no risk">>, confidence |-> 0]

RuleReasons(ev, store, ip_changed, ua_changed) ==
  LoginReason(FailedLogins(ev, store)) \o TwoFaReason(Failed2fa(ev, store))
    \o (IF ip_changed THEN <<<<"IP address changed from previous login">>>> ELSE <<>>)
    \o (IF ua_changed THEN <<<<"User agent changed from previous login">>>> ELSE <<>>)

\* the sum rescaled by the largest sum possible (1.8) instead of clamped
RuleScore_Rescaled(ev, store, ip_changed, ua_changed) ==
  ((LoginTier(FailedLogins(ev, store)) + TwoFaTier(Failed2fa(ev, store))
      + (IF ip_changed THEN 2 ELSE 0) + (IF ua_changed THEN 1 ELSE 0)) * 10) \div 18

\* lines 258-329: the additions summed, then min(risk_score, 1.0)
RuleScore(ev, store, ip_changed, ua_changed) ==
  Min(LoginTier(FailedLogins(ev, store)) + TwoFaTier(Failed2fa(ev, store))
        + (IF ip_changed THEN 2 ELSE 0) + (IF ua_changed THEN 1 ELSE 0),
      10)

\* the analysis with the flag set only above the threshold
rule_based_analysis_Strict(ev, store, ip_changed, ua_changed) ==
  LET risk_score == RuleScore(ev, store, ip_changed, ua_changed)
      reasons == RuleReasons(ev, store, ip_changed, ua_changed)
  IN [risk_score |-> risk_score,
      email_notification |-> risk_score > FRAUD_THRESHOLD,
      reason |-> IF reasons # <<>> THEN JoinTexts(reasons)
                 ELSE <<"Normal authentication pattern detected">>,
      confidence |-> 10]

\* ip_changed and ua_changed are the answers of the two change queries
rule_based_analysis(ev, store, ip_changed, ua_changed) ==
  LET risk_score == RuleScore(ev, store, ip_changed, ua_changed)
      reasons == RuleReasons(ev, store, ip_changed, ua_changed)
  IN [risk_score |-> risk_score,
      email_notification |-> risk_score >= FRAUD_THRESHOLD,
      reason |-> IF reasons # <<>> THEN JoinTexts(reasons)
                 ELSE <<"Normal authentication pattern detected">>,
      confidence |-> 10]

\* What the assessor client does in one request: is_available() answers
\* "yes", "no" or raises ("error"); analyze_fraud_sync returns nothing
\* ("none"), raises ("raises") or returns a result.
Outcome(avail, kind, risk_score, confidence) ==
  [avail |-> avail, kind |-> kind, risk_score |-> risk_score, alert |-> risk_score >= 7,
   reason |-> <<"assessor says">>, confidence |-> confidence]

AssessorOutcomes ==
  { Outcome("no", "none", 0, 0), Outcome("error", "none", 0, 0),
    Outcome("yes", "none", 0, 0), Outcome("yes", "raises", 0, 0),
    Outcome("yes", "result", 9, 8), Outcome("yes", "result", 11, 8) }

\* the conversion of the assessor's result without the field constraints
baml_analysis_Unchecked(ev, store, out) ==
  IF out.kind = "result"
    THEN [risk_score |-> out.risk_score, email_notification |-> out.alert,
          reason |-> <<"[BAML] ">> \o out.reason, confidence |-> out.confidence]
    ELSE NoAssessment

\* the result of _baml_analysis, NoAssessment for None
baml_analysis(ev, store, out) ==
  IF out.kind = "result" /\ WellFormed(out)
    THEN [risk_score |-> out.risk_score, email_notification |-> out.alert,
          reason |-> <<"[BAML] ">> \o out.reason, confidence |-> out.confidence]
    ELSE NoAssessment

\* analyze_event giving the safe default when the assessor gives nothing
analyze_event_NoFallback(ev, store, enabled, out, ip_changed, ua_changed) ==
  IF enabled /\ out.avail = "error" THEN DefaultAssessment
  ELSE IF enabled /\ out.avail = "yes" /\ baml_analysis(ev, store, out) # NoAssessment
    THEN baml_analysis(ev, store, out)
  ELSE IF enabled /\ out.avail = "yes" THEN DefaultAssessment
  ELSE LET assessment == rule_based_analysis(ev, store, ip_changed, ua_changed)
       IN IF WellFormed(assessment) THEN assessment ELSE DefaultAssessment

\* an exception of is_available() (line 112) is caught by the outer try and
\* gives the safe default; an assessor that is unavailable, answers nothing,
\* raises inside _baml_analysis or answers out of range leads to the rules
analyze_event(ev, store, enabled, out, ip_changed, ua_changed) ==
  IF enabled /\ out.avail = "error" THEN DefaultAssessment
  ELSE IF enabled /\ out.avail = "yes" /\ baml_analysis(ev, store, out) # NoAssessment
    THEN baml_analysis(ev, store, out)
  ELSE LET assessment == rule_based_analysis(ev, store, ip_changed, ua_changed)
       IN IF WellFormed(assessment) THEN assessment ELSE DefaultAssessment

EventRow(id, ev) ==
  [id |-> id, user_id |-> ev.user_id, event_type |-> ev.event_type,
   ip_address |-> ev.ip_address, user_agent |-> ev.user_agent,
   timestamp |-> ev.timestamp, risk_score |-> NoScore, fraud_reason |-> NoText,
   analyzed_at |-> NoScore]

\* the write-back reaching every stored event of the subject
WriteBack_Subject(store, id, a, t) ==
  [i \in 1..Len(store) |->
     IF store[i].user_id = store[id].user_id
       THEN [store[i] EXCEPT !.risk_score = a.risk_score,
                             !.fraud_reason = a.reason, !.analyzed_at = t]
       ELSE store[i]]

\* lines 128-132: the assessment written onto the row of this request
WriteBack(store, id, a, t) ==
  [store EXCEPT ![id].risk_score = a.risk_score,
                ![id].fraud_reason = a.reason,
                ![id].analyzed_at = t]

\* db.rollback() undoing the last committed row as well
Rollback_Truncating(store) == SubSeq(store, 1, Len(store) - 1)

\* db.rollback() after a failed commit: the pending INSERT is discarded, the
\* rows committed earlier stay as they are
Rollback(store) == store

\* the request with a failed write-back answered with 500
ingest_event_Surfacing(ev, fault, out) ==
  IF ~ValidEvent(ev)
    THEN /\ iresp' = [code |-> 422, event_id |-> 0, status |-> "rejected",
                      fault |-> "none"]
         /\ UNCHANGED events
  ELSE IF fault = "append"
    THEN /\ iresp' = [code |-> 500, event_id |-> 0, status |-> "failed",
                      fault |-> fault]
         /\ events' = Rollback(events)
  ELSE IF fault = "refresh"
    THEN /\ iresp' = [code |-> 500, event_id |-> 0, status |-> "failed",
                      fault |-> fault]
         /\ events' = Rollback(Append(events, EventRow(Len(events) + 1, ev)))
  ELSE LET id == Len(events) + 1
           stored == Append(events, EventRow(id, ev))
       IN \E ipc \in IpChanged(ev, stored), uac \in UaChanged(ev, stored) :
            LET a == analyze_event(ev, stored, baml_enabled, out, ipc, uac)
            IN /\ events' = IF fault = "writeback" THEN stored
                            ELSE WriteBack(stored, id, a, now)
               /\ iresp' = IF fault = "writeback"
                             THEN [code |-> 500, event_id |-> 0,
                                   status |-> "failed", fault |-> fault]
                             ELSE [code |-> 201, event_id |-> id,
                                   status |-> "accepted", fault |-> fault]

\* POST /mcp/ingest.  fault names the database call that fails: "append" the
\* commit of the new row (line 115), "refresh" the reload of the committed
\* row (line 116), "writeback" the commit of the assessment (line 132),
\* "none" no call.  The first two reach the outer handler (rollback, 500); a
\* failed write-back is caught by the inner try: the row keeps its null
\* assessment and the answer is unchanged.
ingest_event(ev, fault, out) ==
  IF ~ValidEvent(ev)
    THEN /\ iresp' = [code |-> 422, event_id |-> 0, status |-> "rejected",
                      fault |-> "none"]
         /\ UNCHANGED events
  ELSE IF fault = "append"
    THEN /\ iresp' = [code |-> 500, event_id |-> 0, status |-> "failed",
                      fault |-> fault]
         /\ events' = Rollback(events)
  ELSE IF fault = "refresh"
    THEN /\ iresp' = [code |-> 500, event_id |-> 0, status |-> "failed",
                      fault |-> fault]
         /\ events' = Rollback(Append(events, EventRow(Len(events) + 1, ev)))
  ELSE LET id == Len(events) + 1
           stored == Append(events, EventRow(id, ev))
       IN \E ipc \in IpChanged(ev, stored), uac \in UaChanged(ev, stored) :
            LET a == analyze_event(ev, stored, baml_enabled, out, ipc, uac)
            IN /\ events' = IF fault = "writeback" THEN stored
                            ELSE WriteBack(stored, id, a, now)
               /\ iresp' = [code |-> 201, event_id |-> id, status |-> "accepted",
                            fault |-> fault]

IngestUsers == {0, 1, 2}
IngestKinds == {"login_failure", "2fa_failure", "login_success", "bogus"}
\* (ip_address, user_agent) of a request
Clients == {<<None, None>>, <<"A", "A">>, <<"B", "A">>, <<"A", "B">>, <<"B", "B">>}
\* the clients of ingestion requests: none given, the one of the stored
\* login, another one
IngestClients == {<<None, None>>, <<"A", "A">>, <<"B", "B">>}
SeedTime == 10
IngestTimes == {SeedTime + 1, SeedTime + CorrelationMinutes + 1}
Faults == {"none", "append", "refresh", "writeback"}

\* the assessor's answers that lead ingestion to different rows: unavailable
\* (the rules decide, as they do when it answers nothing or raises), failing
\* at is_available(), a result in range and a result out of range
IngestOutcomes ==
  { out \in AssessorOutcomes : out.avail # "yes" \/ out.kind = "result" }

IngestEvent ==
  /\ calls < MaxIngest
  /\ calls' = calls + 1
  /\ \E u \in IngestUsers, k \in IngestKinds, c \in IngestClients,
        t \in IngestTimes, fault \in Faults,
        out \in (IF baml_enabled THEN IngestOutcomes ELSE {Outcome("no", "none", 0, 0)}) :
       ingest_event([user_id |-> u, event_type |-> k, ip_address |-> c[1],
                     user_agent |-> c[2], timestamp |-> t], fault, out)
  /\ UNCHANGED <<alerts, now, resp, sess, baml_enabled, assessed, sideVars>>

\* A store as earlier ingestion left it: nF failed logins, nT failed 2FA
\* attempts and, if ip is set, one successful login from ip, all of user 1 at
\* SeedTime.  Each was assessed against an empty history.
SeedRow(kind, ip) ==
  [id |-> 0, user_id |-> 1, event_type |-> kind, ip_address |-> ip,
   user_agent |-> ip, timestamp |-> SeedTime, risk_score |-> 0,
   fraud_reason |-> <<"Normal authentication pattern detected">>,
   analyzed_at |-> 0]

SeedStore(nF, nT, ip) ==
  LET rows == [i \in 1..nF |-> SeedRow("login_failure", "B")]
                \o [i \in 1..nT |-> SeedRow("2fa_failure", "B")]
                \o (IF ip # None THEN <<SeedRow("login_success", ip)>> ELSE <<>>)
  IN [i \in 1..Len(rows) |-> [rows[i] EXCEPT !.id = i]]

SeedStores == { SeedStore(0, 0, None), SeedStore(3, 0, "A"), SeedStore(11, 11, "A") }

InitIngest ==
  /\ alerts \in {<<>>, <<SeedAlert>>}
  /\ now = 0
  /\ resp = NoResp
  /\ sess = [p \in Procs |-> IdleSess]
  /\ calls = 0
  /\ events \in SeedStores
  /\ baml_enabled \in BOOLEAN
  /\ iresp = NoIngestResp
  /\ assessed = NoAssessed
  /\ SideInit

NextIngest == IngestEvent

SpecIngest == InitIngest /\ [][NextIngest]_vars

\* ---- the detector called on its own, as its tests call it
StoredRow(user_id, kind, ip, ua, timestamp) ==
  [id |-> 0, user_id |-> user_id, event_type |-> kind, ip_address |-> ip,
   user_agent |-> ua, timestamp |-> timestamp, risk_score |-> 0,
   fraud_reason |-> <<"Normal authentication pattern detected">>,
   analyzed_at |-> 0]

WithIds(rows) == [i \in 1..Len(rows) |-> [rows[i] EXCEPT !.id = i]]

\* Two successful logins of user 1, the earlier from B and the later from A
\* with the same user agent, nEarly failed logins at the earlier instant and
\* nLate at the later one, and failed logins of user 2 beside them.
TwoLoginStore(nEarly, nLate) ==
  WithIds([i \in 1..nEarly |-> StoredRow(1, "login_failure", "B", "A", SeedTime)]
          \o <<StoredRow(1, "login_success", "B", "A", SeedTime)>>
          \o [i \in 1..nLate |-> StoredRow(1, "login_failure", "B", "A", SeedTime + 3)]
          \o <<StoredRow(1, "login_success", "A", "A", SeedTime + 3)>>
          \o [i \in 1..3 |-> StoredRow(2, "login_failure", "B", "A", SeedTime + 3)])

\* the counts at both sides of every tier boundary
TierCounts == {0, 2, 3, 5, 6, 10, 11}

AssessStores ==
  { SeedStore(nF, nT, ip) : nF \in TierCounts, nT \in TierCounts, ip \in {None, "A"} }
    \cup { TwoLoginStore(3, 3), TwoLoginStore(0, 2) }

AssessKinds == {"login_failure", "2fa_failure", "login_success"}
AssessTimes ==
  {SeedTime, SeedTime + 1, SeedTime + CorrelationMinutes,
   SeedTime + CorrelationMinutes + 1}

\* One call of analyze_event(event, db).  The store the detector reads is the
\* table as it is (the call of a test) or the table with the event's own row
\* already appended (the call of ingest_event, ingest.py:113-125).
AnalyzeEvent ==
  /\ assessed = NoAssessed
  /\ \E u \in Users, k \in AssessKinds, c \in Clients, t \in AssessTimes,
        appended \in BOOLEAN,
        out \in (IF baml_enabled THEN AssessorOutcomes ELSE {Outcome("no", "none", 0, 0)}) :
       LET ev == [user_id |-> u, event_type |-> k, ip_address |-> c[1],
                  user_agent |-> c[2], timestamp |-> t]
           store == IF appended THEN Append(events, EventRow(Len(events) + 1, ev))
                    ELSE events
       IN \E ipc \in IpChanged(ev, store), uac \in UaChanged(ev, store) :
            assessed' = [op |-> "analyze", ev |-> ev, appended |-> appended,
                         enabled |-> baml_enabled, out |-> out,
                         failed_logins |-> FailedLogins(ev, store),
                         failed_2fa |-> Failed2fa(ev, store),
                         ip_changed |-> ipc, ua_changed |-> uac,
                         result |-> analyze_event(ev, store, baml_enabled, out,
                                                  ipc, uac)]
  /\ UNCHANGED <<alerts, now, resp, sess, calls, events, baml_enabled, iresp,
               sideVars>>

InitAssess ==
  /\ alerts = <<>>
  /\ now = 0
  /\ resp = NoResp
  /\ sess = [p \in Procs |-> IdleSess]
  /\ calls = 0
  /\ events \in AssessStores
  /\ baml_enabled \in BOOLEAN
  /\ iresp = NoIngestResp
  /\ assessed = NoAssessed
  /\ SideInit

NextAssess == AnalyzeEvent

SpecAssess == InitAssess /\ [][NextAssess]_vars

\* ---- one subject beside another: either the detector is called once on a
\* store holding events of both subjects, or alert requests run on a table
\* that may hold an alert of the other subject
OtherAlert ==
  [id |-> 1, user_id |-> 2, event_ids |-> <<SeedEventIds[1]>>, risk_score |-> 7,
   reason |-> <<"x">>, status |-> "open", created_at |-> 0, updated_at |-> 0]

IsolationAlerts ==
  AlertSeeds \cup { <<OtherAlert>>, <<OtherAlert, [SeedAlert EXCEPT !.id = 2]>> }

IsolationStores == { SeedStore(3, 3, "A"), SeedStore(11, 11, "A"), TwoLoginStore(3, 3) }

AnalyzeEventAlone == calls = 0 /\ AnalyzeEvent

CreateAlertAlone == assessed = NoAssessed /\ CreateAlert

InitIsolation ==
  /\ alerts \in IsolationAlerts
  /\ now = 0
  /\ resp = NoResp
  /\ sess = [p \in Procs |-> IdleSess]
  /\ calls = 0
  /\ events \in IsolationStores
  /\ baml_enabled = FALSE
  /\ iresp = NoIngestResp
  /\ assessed = NoAssessed
  /\ SideInit

NextIsolation == AnalyzeEventAlone \/ CreateAlertAlone

SpecIsolation == InitIsolation /\ [][NextIsolation]_vars

\* ====================================================================
\* Query handlers: GET /mcp/events and GET /mcp/fraud-assessments
\* ====================================================================
MaxPage == 2

\* query parameters that were not supplied, and a date that does not parse
NoUser == 0
NoDate == -1
BadDate == -2
NoStats == [total_events |-> NoScore, high_risk_events |-> NoScore,
            medium_risk_events |-> NoScore, low_risk_events |-> NoScore,
            average_risk_score |-> NoScore]

\* datetime.fromisoformat(d.replace('Z', '+00:00')): an instant, or ValueError
fromisoformat(d) ==
  IF d = BadDate THEN [ok |-> FALSE, t |-> 0] ELSE [ok |-> TRUE, t |-> d]

\* the rows and_(*filters) of get_events selects
EventFilters(store, q) ==
  { i \in 1..Len(store) :
      /\ q.user_id # NoUser => store[i].user_id = q.user_id
      /\ q.event_type # None => store[i].event_type = q.event_type
      /\ q.start_date # NoDate => store[i].timestamp >= fromisoformat(q.start_date).t
      /\ q.end_date # NoDate => store[i].timestamp <= fromisoformat(q.end_date).t }

\* the rows and_(*filters) of get_fraud_assessments selects
AssessmentFilters(store, q) ==
  { i \in 1..Len(store) :
      /\ store[i].risk_score # NoScore
      /\ q.user_id # NoUser => store[i].user_id = q.user_id
      /\ q.min_risk_score # NoScore => store[i].risk_score >= q.min_risk_score
      /\ q.max_risk_score # NoScore => store[i].risk_score <= q.max_risk_score
      /\ q.start_date # NoDate => store[i].timestamp >= fromisoformat(q.start_date).t
      /\ q.end_date # NoDate => store[i].timestamp <= fromisoformat(q.end_date).t }

\* ORDER BY key DESC over the rows S: every order the database may return,
\* rows of equal key in any order
RECURSIVE Orders(_, _)
Orders(S, key) ==
  IF S = {} THEN {<<>>}
  ELSE UNION { { <<x>> \o r : r \in Orders(S \ {x}, key) } :
               x \in { y \in S : \A z \in S : key[z] <= key[y] } }

\* .limit(limit).offset(offset)
Page(ord, limit, offset) == SubSeq(ord, offset + 1, Min(offset + limit, Len(ord)))

RECURSIVE SumScores(_, _)
SumScores(S, store) ==
  IF S = {} THEN 0
  ELSE LET x == CHOOSE y \in S : TRUE
       IN store[x].risk_score + SumScores(S \ {x}, store)

\* round(sum / n, 4) of scores given in tenths, in units of 0.0001.  A tie
\* needs n to be a multiple of 16.
Round4(sum, n) ==
  LET q == (1000 * sum) \div n
      r == (1000 * sum) % n
  IN IF 2 * r < n THEN q
     ELSE IF 2 * r > n THEN q + 1
     ELSE IF q % 2 = 0 THEN q ELSE q + 1

\* the statistics with 0.7 counted as high
calculate_statistics_ClosedHigh(S, store) ==
  LET risk_scores == { i \in S : store[i].risk_score # NoScore }
      n == Cardinality(risk_scores)
  IN IF n = 0
       THEN [total_events |-> 0, high_risk_events |-> 0, medium_risk_events |-> 0,
             low_risk_events |-> 0, average_risk_score |-> 0]
       ELSE [total_events |-> n,
             high_risk_events |->
               Cardinality({ i \in risk_scores : store[i].risk_score >= 7 }),
             medium_risk_events |->
               Cardinality({ i \in risk_scores :
                               4 < store[i].risk_score /\ store[i].risk_score < 7 }),
             low_risk_events |->
               Cardinality({ i \in risk_scores : store[i].risk_score <= 4 }),
             average_risk_score |-> Round4(SumScores(risk_scores, store), n)]

\* _calculate_statistics over the rows S of the filtered query
calculate_statistics(S, store) ==
  LET risk_scores == { i \in S : store[i].risk_score # NoScore }
      n == Cardinality(risk_scores)
  IN IF n = 0
       THEN [total_events |-> 0, high_risk_events |-> 0, medium_risk_events |-> 0,
             low_risk_events |-> 0, average_risk_score |-> 0]
       ELSE [total_events |-> n,
             high_risk_events |->
               Cardinality({ i \in risk_scores : store[i].risk_score > 7 }),
             medium_risk_events |->
               Cardinality({ i \in risk_scores :
                               4 < store[i].risk_score /\ store[i].risk_score <= 7 }),
             low_risk_events |->
               Cardinality({ i \in risk_scores : store[i].risk_score <= 4 }),
             average_risk_score |-> Round4(SumScores(risk_scores, store), n)]

\* what a query answers: its parameters, whether the database failed, the
\* status code, the ids of the page, the total, the statistics and the number
\* of reads the handler issued, and for an assessment listing the
\* notification flag of each item of the page
QueryResp(op, q, fault, code, items, total, stats, reads, flags) ==
  [op |-> op, q |-> q, fault |-> fault, code |-> code, items |-> items,
   total |-> total, stats |-> stats, reads |-> reads,
   email_notification |-> flags]

\* line 184: the notification flag the listing reports for a stored score;
\* a score of zero is falsy and gives False
ListedNotification(risk_score) ==
  IF risk_score # 0 THEN risk_score > FRAUD_THRESHOLD ELSE FALSE

\* lines 165-188: the flags of the items of a page
ListedNotifications(items, store) ==
  [k \in 1..Len(items) |-> ListedNotification(store[items[k]].risk_score)]

\* GET /mcp/events.  fault: the database raises at the first read.
get_events(q, fault) ==
  IF (q.start_date # NoDate /\ ~fromisoformat(q.start_date).ok)
     \/ (q.end_date # NoDate /\ ~fromisoformat(q.end_date).ok)
    THEN qresp' = QueryResp("events", q, fault, 400, <<>>, 0, NoStats, 0, <<>>)
    ELSE IF fault
      THEN qresp' = QueryResp("events", q, fault, 500, <<>>, 0, NoStats, 1, <<>>)
      ELSE LET S == EventFilters(events, q)
           IN \E ord \in Orders(S, [i \in S |-> events[i].timestamp]) :
                qresp' = QueryResp("events", q, fault, 200,
                                   Page(ord, q.limit, q.offset),
                                   Cardinality(S), NoStats, 2, <<>>)

\* the range check made after the statistics, the count and the page
get_fraud_assessments_LateCheck(q, fault) ==
  IF \E v \in {q.min_risk_score, q.max_risk_score} : v # NoScore /\ v \notin 0..10
    THEN qresp' = QueryResp("assessments", q, fault, 422, <<>>, 0, NoStats, 0, <<>>)
    ELSE IF (q.start_date # NoDate /\ ~fromisoformat(q.start_date).ok)
            \/ (q.end_date # NoDate /\ ~fromisoformat(q.end_date).ok)
      THEN qresp' = QueryResp("assessments", q, fault, 400, <<>>, 0, NoStats, 0, <<>>)
      ELSE IF fault
        THEN qresp' = QueryResp("assessments", q, fault, 500, <<>>, 0, NoStats, 1, <<>>)
        ELSE IF /\ q.min_risk_score # NoScore
                /\ q.max_risk_score # NoScore
                /\ q.min_risk_score > q.max_risk_score
          THEN qresp' = QueryResp("assessments", q, fault, 400, <<>>, 0, NoStats, 3, <<>>)
          ELSE LET S == AssessmentFilters(events, q)
                   key == [i \in S |-> IF q.order = "desc" THEN events[i].risk_score
                                       ELSE 0 - events[i].risk_score]
               IN \E ord \in Orders(S, key) :
                    qresp' = QueryResp("assessments", q, fault, 200,
                                       Page(ord, q.limit, q.offset), Cardinality(S),
                                       calculate_statistics(S, events), 3,
                                       ListedNotifications(
                                         Page(ord, q.limit, q.offset), events))

\* GET /mcp/fraud-assessments: the bounds of the parameters are validated
\* before the handler runs (422); the range check comes first in the handler,
\* then the dates, then the statistics, the count and the sorted page.
get_fraud_assessments(q, fault) ==
  IF \E v \in {q.min_risk_score, q.max_risk_score} : v # NoScore /\ v \notin 0..10
    THEN qresp' = QueryResp("assessments", q, fault, 422, <<>>, 0, NoStats, 0, <<>>)
    ELSE IF /\ q.min_risk_score # NoScore
            /\ q.max_risk_score # NoScore
            /\ q.min_risk_score > q.max_risk_score
      THEN qresp' = QueryResp("assessments", q, fault, 400, <<>>, 0, NoStats, 0, <<>>)
      ELSE IF (q.start_date # NoDate /\ ~fromisoformat(q.start_date).ok)
              \/ (q.end_date # NoDate /\ ~fromisoformat(q.end_date).ok)
        THEN qresp' = QueryResp("assessments", q, fault, 400, <<>>, 0, NoStats, 0, <<>>)
        ELSE IF fault
          THEN qresp' = QueryResp("assessments", q, fault, 500, <<>>, 0, NoStats, 1, <<>>)
          ELSE LET S == AssessmentFilters(events, q)
                   key == [i \in S |-> IF q.order = "desc" THEN events[i].risk_score
                                       ELSE 0 - events[i].risk_score]
               IN \E ord \in Orders(S, key) :
                    qresp' = QueryResp("assessments", q, fault, 200,
                                       Page(ord, q.limit, q.offset), Cardinality(S),
                                       calculate_statistics(S, events), 3,
                                       ListedNotifications(
                                         Page(ord, q.limit, q.offset), events))

QueryUsers == {NoUser, 1, 2}
QueryKinds == {None, "login_failure", "login_success"}
QueryDates == {NoDate, BadDate, SeedTime + 1}
QueryScores == {NoScore, 4, 7, 11}

GetEvents ==
  /\ qresp = NoQueryResp
  /\ \E u \in QueryUsers, k \in QueryKinds, sd \in QueryDates, ed \in QueryDates,
        l \in 1..MaxPage, o \in 0..(MaxPage - 1), fault \in BOOLEAN :
       get_events([user_id |-> u, event_type |-> k, start_date |-> sd,
                   end_date |-> ed, limit |-> l, offset |-> o], fault)
  /\ UNCHANGED <<alerts, now, resp, sess, calls, ingestVars, authVars>>

GetFraudAssessments ==
  /\ qresp = NoQueryResp
  /\ \E u \in QueryUsers, lo \in QueryScores, hi \in QueryScores,
        sd \in QueryDates, ed \in QueryDates, ord \in {"asc", "desc"},
        l \in 1..MaxPage, o \in 0..(MaxPage - 1), fault \in BOOLEAN :
       get_fraud_assessments([user_id |-> u, min_risk_score |-> lo,
                              max_risk_score |-> hi, start_date |-> sd,
                              end_date |-> ed, order |-> ord, limit |-> l,
                              offset |-> o], fault)
  /\ UNCHANGED <<alerts, now, resp, sess, calls, ingestVars, authVars>>

\* a stored event with the assessment ingestion left on it, or none
QueryRow(user_id, kind, timestamp, score) ==
  [StoredRow(user_id, kind, "A", "A", timestamp) EXCEPT
     !.risk_score = score,
     !.fraud_reason = IF score = NoScore THEN NoText ELSE @,
     !.analyzed_at = IF score = NoScore THEN NoScore ELSE timestamp]

\* an empty store; the scores 0.1, 0.5, 0.8 beside unassessed events; scores
\* on the band limits, equal scores and equal timestamps
QueryStores ==
  { <<>>,
    WithIds(<< QueryRow(1, "login_failure", SeedTime, 1),
               QueryRow(1, "login_failure", SeedTime + 1, 5),
               QueryRow(1, "login_success", SeedTime + 1, 8),
               QueryRow(1, "login_failure", SeedTime + 2, NoScore),
               QueryRow(2, "login_failure", SeedTime + 3, NoScore) >>),
    WithIds(<< QueryRow(1, "login_failure", SeedTime, 4),
               QueryRow(1, "login_failure", SeedTime + 1, 7),
               QueryRow(2, "login_failure", SeedTime + 1, 7),
               QueryRow(1, "login_success", SeedTime + 3, 10),
               QueryRow(2, "login_success", SeedTime, 0) >>) }

InitQuery ==
  /\ alerts = <<>>
  /\ now = 0
  /\ resp = NoResp
  /\ sess = [p \in Procs |-> IdleSess]
  /\ calls = 0
  /\ events \in QueryStores
  /\ baml_enabled = FALSE
  /\ iresp = NoIngestResp
  /\ assessed = NoAssessed
  /\ qresp = NoQueryResp
  /\ AuthIdle

NextQuery == GetEvents \/ GetFraudAssessments

SpecQuery == InitQuery /\ [][NextQuery]_vars

\* ====================================================================
\* Auth service: login, TOTP second factor, password reset
\* ====================================================================
MaxAuthCalls == 2
RATE_LIMIT_MINUTES == 15
RATE_LIMIT_ATTEMPTS == 5
RESET_TOKEN_MINUTES == 15

Secrets == {"s1", "s2"}
\* the code pyotp.TOTP(secret) accepts at the current instant
TotpCode(secret) == IF secret = "s1" THEN "111111" ELSE "222222"
local_bypass_code == "000000"
\* codes that pass `len(code) == 6 and code.isdigit()`, and one that does not
SixDigitCodes == {"111111", "222222", "000000"}
Codes == SixDigitCodes \cup {"12345"}
Usernames == {"u1", "ghost"}
Emails == {"e1", "ghost"}
Passwords == {"pw", "bad"}
NewPasswords == {"new", "new2"}

ByUsername(username) == { i \in 1..Len(users) : users[i].username = username }
ByEmail(email) == { i \in 1..Len(users) : users[i].email = email }

NoAuthArgs == [username |-> None, password |-> None, code |-> None, token |-> 0]

AuthResp(op, args, code, access_token, requires2fa) ==
  [op |-> op, args |-> args, code |-> code, access_token |-> access_token,
   requires2fa |-> requires2fa]

\* log_auth_event: one row added and committed; an SQLAlchemyError is caught
\* and rolled back, and the caller goes on
log_auth_event(log, event_type, user, failed) ==
  IF failed THEN log
  ELSE Append(log, [user_id |-> user.id, username |-> user.username,
                    event_type |-> event_type, timestamp |-> now])

\* `TOTPAttempt.success is False` is Python's identity test of the column
\* attribute against False.  Its value is the constant False, which the filter
\* receives as the SQL constant false.
SuccessIsFalse == FALSE

\* check_rate_limit: the rows the query selects reach the limit
check_rate_limit(attempts, user_id, t) ==
  LET failed_attempts ==
        { i \in 1..Len(attempts) :
            /\ attempts[i].user_id = user_id
            /\ attempts[i].attempted_at > t - RATE_LIMIT_MINUTES
            /\ SuccessIsFalse }
  IN Cardinality(failed_attempts) >= RATE_LIMIT_ATTEMPTS

\* record_totp_attempt
record_totp_attempt(attempts, user_id, success, t) ==
  Append(attempts, [user_id |-> user_id, attempted_at |-> t, success |-> success])

\* the first step answering with a token whether or not 2FA is enabled
login_TokenAlways(username, password, logfail) ==
  LET args == [NoAuthArgs EXCEPT !.username = username, !.password = password]
      U == ByUsername(username)
  IN /\ IF U = {}
          THEN /\ aresp' = AuthResp("login", args, 401, FALSE, FALSE)
               /\ UNCHANGED auth_events
          ELSE LET user == users[CHOOSE i \in U : TRUE]
               IN IF ~verify_password(password, user.password)
                    THEN /\ auth_events' = log_auth_event(auth_events, "login_failure",
                                                          user, logfail)
                         /\ aresp' = AuthResp("login", args, 401, FALSE, FALSE)
                    ELSE /\ auth_events' = log_auth_event(auth_events, "login_success",
                                                          user, logfail)
                         /\ aresp' = AuthResp("login", args, 200, TRUE, FALSE)
     /\ UNCHANGED <<users, totp_attempts, reset_tokens>>

\* POST /login
login(username, password, logfail) ==
  LET args == [NoAuthArgs EXCEPT !.username = username, !.password = password]
      U == ByUsername(username)
  IN /\ IF U = {}
          THEN /\ aresp' = AuthResp("login", args, 401, FALSE, FALSE)
               /\ UNCHANGED auth_events
          ELSE LET user == users[CHOOSE i \in U : TRUE]
               IN IF ~verify_password(password, user.password)
                    THEN /\ auth_events' = log_auth_event(auth_events, "login_failure",
                                                          user, logfail)
                         /\ aresp' = AuthResp("login", args, 401, FALSE, FALSE)
                    ELSE IF user.is_2fa_enabled
                      THEN /\ aresp' = AuthResp("login", args, 200, FALSE, TRUE)
                           /\ UNCHANGED auth_events
                      ELSE /\ auth_events' = log_auth_event(auth_events, "login_success",
                                                            user, logfail)
                           /\ aresp' = AuthResp("login", args, 200, TRUE, FALSE)
     /\ UNCHANGED <<users, totp_attempts, reset_tokens>>

\* POST /2fa/enroll.  new_secret: the value pyotp.random_base32() draws.
enroll_2fa(username, password, new_secret) ==
  LET args == [NoAuthArgs EXCEPT !.username = username, !.password = password]
      U == ByUsername(username)
  IN /\ IF U = {} \/ (U # {} /\ ~verify_password(password,
                                     users[CHOOSE i \in U : TRUE].password))
          THEN /\ aresp' = AuthResp("enroll", args, 401, FALSE, FALSE)
               /\ UNCHANGED users
          ELSE LET u == CHOOSE i \in U : TRUE
               IN /\ users' = [users EXCEPT ![u].totp_secret = new_secret,
                                            ![u].is_2fa_enabled = TRUE]
                  /\ aresp' = AuthResp("enroll", args, 200, FALSE, FALSE)
     /\ UNCHANGED <<totp_attempts, reset_tokens, auth_events>>

\* POST /2fa/verify
verify_totp(username, code, logfail) ==
  LET args == [NoAuthArgs EXCEPT !.username = username, !.code = code]
      U == ByUsername(username)
  IN /\ IF U = {}
          THEN /\ aresp' = AuthResp("verify", args, 401, FALSE, FALSE)
               /\ UNCHANGED <<totp_attempts, auth_events>>
          ELSE LET user == users[CHOOSE i \in U : TRUE]
               IN IF ~user.is_2fa_enabled \/ user.totp_secret = None
                    THEN /\ aresp' = AuthResp("verify", args, 400, FALSE, FALSE)
                         /\ UNCHANGED <<totp_attempts, auth_events>>
                    ELSE IF is_local_env /\ code = local_bypass_code
                      THEN /\ totp_attempts' =
                                record_totp_attempt(totp_attempts, user.id, TRUE, now)
                           /\ auth_events' = log_auth_event(auth_events, "2fa_success",
                                                            user, logfail)
                           /\ aresp' = AuthResp("verify", args, 200, TRUE, FALSE)
                      ELSE IF code \notin SixDigitCodes
                        THEN /\ aresp' = AuthResp("verify", args, 400, FALSE, FALSE)
                             /\ UNCHANGED <<totp_attempts, auth_events>>
                        ELSE IF check_rate_limit(totp_attempts, user.id, now)
                          THEN /\ aresp' = AuthResp("verify", args, 429, FALSE, FALSE)
                               /\ UNCHANGED <<totp_attempts, auth_events>>
                          ELSE LET is_valid == code = TotpCode(user.totp_secret)
                               IN /\ totp_attempts' =
                                       record_totp_attempt(totp_attempts, user.id,
                                                           is_valid, now)
                                  /\ auth_events' =
                                       log_auth_event(auth_events,
                                                      IF is_valid THEN "2fa_success"
                                                      ELSE "2fa_failure", user, logfail)
                                  /\ aresp' = IF is_valid
                                       THEN AuthResp("verify", args, 200, TRUE, FALSE)
                                       ELSE AuthResp("verify", args, 401, FALSE, FALSE)
     /\ UNCHANGED <<users, reset_tokens>>

\* POST /2fa/disable
disable_2fa(username, password) ==
  LET args == [NoAuthArgs EXCEPT !.username = username, !.password = password]
      U == ByUsername(username)
  IN /\ IF U = {} \/ (U # {} /\ ~verify_password(password,
                                     users[CHOOSE i \in U : TRUE].password))
          THEN /\ aresp' = AuthResp("disable", args, 401, FALSE, FALSE)
               /\ UNCHANGED users
          ELSE LET u == CHOOSE i \in U : TRUE
               IN /\ users' = [users EXCEPT ![u].is_2fa_enabled = FALSE,
                                            ![u].totp_secret = None]
                  /\ aresp' = AuthResp("disable", args, 200, FALSE, FALSE)
     /\ UNCHANGED <<totp_attempts, reset_tokens, auth_events>>

\* POST /password-reset/request: the answer is the same for a known and an
\* unknown address; the token (a uuid4) is the row's position in its table
password_reset_request(email) ==
  LET args == [NoAuthArgs EXCEPT !.username = email]
      U == ByEmail(email)
  IN /\ reset_tokens' =
          IF U = {} THEN reset_tokens
          ELSE Append(reset_tokens,
                      [token |-> Len(reset_tokens) + 1,
                       user_id |-> users[CHOOSE i \in U : TRUE].id,
                       expires_at |-> now + RESET_TOKEN_MINUTES, used |-> FALSE])
     /\ aresp' = AuthResp("reset_request", args, 200, FALSE, FALSE)
     /\ UNCHANGED <<users, totp_attempts, auth_events>>

\* the confirmation without the test of the used flag
password_reset_confirm_Reusable(token, new_password, logfail) ==
  LET args == [NoAuthArgs EXCEPT !.token = token, !.password = new_password]
      T == { i \in 1..Len(reset_tokens) : reset_tokens[i].token = token }
  IN IF T = {} \/ (T # {} /\ LET prt == reset_tokens[CHOOSE i \in T : TRUE]
                             IN prt.expires_at < now)
       THEN /\ aresp' = AuthResp("reset_confirm", args, 400, FALSE, FALSE)
            /\ UNCHANGED <<users, reset_tokens, totp_attempts, auth_events>>
       ELSE LET t == CHOOSE i \in T : TRUE
                prt == reset_tokens[t]
            IN IF prt.user_id \notin 1..Len(users)
                 THEN /\ aresp' = AuthResp("reset_confirm", args, 400, FALSE, FALSE)
                      /\ UNCHANGED <<users, reset_tokens, totp_attempts, auth_events>>
                 ELSE /\ users' = [users EXCEPT ![prt.user_id].password =
                                                   hash_password(new_password)]
                      /\ reset_tokens' = [reset_tokens EXCEPT ![t].used = TRUE]
                      /\ auth_events' = log_auth_event(auth_events, "password_reset",
                                                       users[prt.user_id], logfail)
                      /\ aresp' = AuthResp("reset_confirm", args, 200, FALSE, FALSE)
                      /\ UNCHANGED totp_attempts

\* POST /password-reset/confirm
password_reset_confirm(token, new_password, logfail) ==
  LET args == [NoAuthArgs EXCEPT !.token = token, !.password = new_password]
      T == { i \in 1..Len(reset_tokens) : reset_tokens[i].token = token }
  IN IF T = {} \/ (T # {} /\ LET prt == reset_tokens[CHOOSE i \in T : TRUE]
                             IN prt.used \/ prt.expires_at < now)
       THEN /\ aresp' = AuthResp("reset_confirm", args, 400, FALSE, FALSE)
            /\ UNCHANGED <<users, reset_tokens, totp_attempts, auth_events>>
       ELSE LET t == CHOOSE i \in T : TRUE
                prt == reset_tokens[t]
            IN IF prt.user_id \notin 1..Len(users)
                 THEN /\ aresp' = AuthResp("reset_confirm", args, 400, FALSE, FALSE)
                      /\ UNCHANGED <<users, reset_tokens, totp_attempts, auth_events>>
                 ELSE /\ users' = [users EXCEPT ![prt.user_id].password =
                                                   hash_password(new_password)]
                      /\ reset_tokens' = [reset_tokens EXCEPT ![t].used = TRUE]
                      /\ auth_events' = log_auth_event(auth_events, "password_reset",
                                                       users[prt.user_id], logfail)
                      /\ aresp' = AuthResp("reset_confirm", args, 200, FALSE, FALSE)
                      /\ UNCHANGED totp_attempts

\* what an auth request leaves alone
AuthFrame ==
  /\ calls < MaxAuthCalls
  /\ calls' = calls + 1
  /\ UNCHANGED <<alerts, now, resp, sess, ingestVars, queryVars, is_local_env,
                 confirms>>

Login ==
  /\ AuthFrame
  /\ \E u \in Usernames, p \in Passwords, logfail \in BOOLEAN : login(u, p, logfail)

Enroll2fa ==
  /\ AuthFrame
  /\ \E u \in Usernames, p \in Passwords, s \in Secrets : enroll_2fa(u, p, s)

VerifyTotp ==
  /\ AuthFrame
  /\ \E u \in Usernames, c \in Codes, logfail \in BOOLEAN : verify_totp(u, c, logfail)

Disable2fa ==
  /\ AuthFrame
  /\ \E u \in Usernames, p \in Passwords : disable_2fa(u, p)

PasswordResetRequest ==
  /\ AuthFrame
  /\ \E e \in Emails : password_reset_request(e)

PasswordResetConfirm ==
  /\ AuthFrame
  /\ \E t \in 1..(Len(reset_tokens) + 1), p \in NewPasswords, logfail \in BOOLEAN :
       password_reset_confirm(t, p, logfail)

\* TOTP attempts of earlier requests: n of one user at one instant
Attempts(user_id, n, t, success) ==
  [i \in 1..n |-> [user_id |-> user_id, attempted_at |-> t, success |-> success]]

\* none; five failures of user 1 a minute ago; four failures of user 1 a
\* minute ago beside failures of user 1 at and before the start of the window,
\* a success of user 1 and five failures of user 2
AttemptSeeds ==
  { <<>>,
    Attempts(1, RATE_LIMIT_ATTEMPTS, 0 - 1, FALSE),
    Attempts(1, RATE_LIMIT_ATTEMPTS - 1, 0 - 1, FALSE)
      \o Attempts(1, 1, 0 - RATE_LIMIT_MINUTES, FALSE)
      \o Attempts(1, 1, 0 - RATE_LIMIT_MINUTES - 1, FALSE)
      \o Attempts(1, 1, 0 - 1, TRUE)
      \o Attempts(2, RATE_LIMIT_ATTEMPTS, 0 - 1, FALSE) }

\* reset tokens of earlier requests: none; or one of user 1 that is good
\* for RESET_TOKEN_MINUTES more, one of user 1 that expired a minute ago and
\* one of user 2 that expires at this instant
TokenSeeds ==
  { <<>>,
    << [token |-> 1, user_id |-> 1, expires_at |-> RESET_TOKEN_MINUTES, used |-> FALSE],
       [token |-> 2, user_id |-> 1, expires_at |-> 0 - 1, used |-> FALSE],
       [token |-> 3, user_id |-> 2, expires_at |-> 0, used |-> FALSE] >> }

InitAuth ==
  /\ alerts = <<>>
  /\ now = 0
  /\ resp = NoResp
  /\ sess = [p \in Procs |-> IdleSess]
  /\ calls = 0
  /\ events = <<>>
  /\ baml_enabled = FALSE
  /\ iresp = NoIngestResp
  /\ assessed = NoAssessed
  /\ qresp = NoQueryResp
  /\ users = RegisteredUsers
  /\ totp_attempts \in AttemptSeeds
  /\ reset_tokens \in TokenSeeds
  /\ auth_events = <<>>
  /\ aresp = NoAuthResp
  /\ is_local_env \in BOOLEAN
  /\ confirms = [p \in Procs |-> IdleConfirm]

NextAuth ==
  \/ Login
  \/ Enroll2fa
  \/ VerifyTotp
  \/ Disable2fa
  \/ PasswordResetRequest
  \/ PasswordResetConfirm

SpecAuth == InitAuth /\ [][NextAuth]_vars

\* ---- POST /password-reset/confirm in two steps, for requests that overlap:
\* each request has its own session; what it read stays as it read it until
\* it commits
\* lines 306-313: the request reads the clock and the token row and answers
\* 400 for an unknown, used or expired token
BeginConfirm(p) ==
  /\ confirms[p].pc = "idle"
  /\ \E token \in 1..(Len(reset_tokens) + 1), new_password \in NewPasswords :
       LET T == { i \in 1..Len(reset_tokens) : reset_tokens[i].token = token }
           req == [IdleConfirm EXCEPT !.token = token, !.new_password = new_password]
       IN IF T = {} \/ (T # {} /\ LET prt == reset_tokens[CHOOSE i \in T : TRUE]
                                  IN prt.used \/ prt.expires_at < now)
            THEN confirms' = [confirms EXCEPT
                                ![p] = [req EXCEPT !.pc = "done", !.code = 400]]
            ELSE LET t == CHOOSE i \in T : TRUE
                 IN confirms' = [confirms EXCEPT
                                   ![p] = [req EXCEPT !.pc = "read", !.row = t,
                                             !.user_id = reset_tokens[t].user_id]]
  /\ UNCHANGED <<alerts, now, resp, sess, calls, ingestVars, queryVars, users,
                 totp_attempts, reset_tokens, auth_events, aresp, is_local_env>>

\* lines 315-329: the request looks the user up, sets the password and the
\* used mark of the row it holds, commits and logs the event
FinishConfirm(p) ==
  /\ confirms[p].pc = "read"
  /\ LET c == confirms[p]
     IN IF c.user_id \notin 1..Len(users)
          THEN /\ confirms' = [confirms EXCEPT ![p].pc = "done", ![p].code = 400]
               /\ UNCHANGED <<users, reset_tokens, auth_events>>
          ELSE /\ users' = [users EXCEPT ![c.user_id].password =
                                            hash_password(c.new_password)]
               /\ reset_tokens' = [reset_tokens EXCEPT ![c.row].used = TRUE]
               /\ \E logfail \in BOOLEAN :
                    auth_events' = log_auth_event(auth_events, "password_reset",
                                                  users[c.user_id], logfail)
               /\ confirms' = [confirms EXCEPT ![p].pc = "done", ![p].code = 200]
  /\ UNCHANGED <<alerts, now, resp, sess, calls, ingestVars, queryVars,
                 totp_attempts, aresp, is_local_env>>

BeginConfirms == \E p \in Procs : BeginConfirm(p)

FinishConfirms == \E p \in Procs : FinishConfirm(p)

NextAuthConc == BeginConfirms \/ FinishConfirms

SpecAuthConc == InitAuth /\ [][NextAuthConc]_vars

\* ====================================================================
\* Properties of the alert table
\* ====================================================================
InList(x, seq) == \E k \in 1..Len(seq) : seq[k] = x

\* this step is a completed create_alert request
IsCreateStep == calls' = calls + 1 /\ resp'.op = "create_alert"

OpenAlertsOf(tbl, user_id) ==
  { i \in 1..Len(tbl) : tbl[i].user_id = user_id /\ tbl[i].status = "open" }

\* C1: two create_alert requests for the same subject that both looked up
\* the open alert before the other committed, and both found none, do not
\* both insert an alert.
C1_InterleavedCreateOnce ==
  \A p \in Procs : \A q \in Procs \ {p} :
    ( /\ sess[p].pc = "done" /\ sess[q].pc = "done"
      /\ sess[p].args.user_id = sess[q].args.user_id
      /\ sess[p].row = NoRow /\ sess[q].row = NoRow
      /\ \/ sess[p].overlapped
         \/ sess[q].overlapped )
    => ~(sess[p].created # 0 /\ sess[q].created # 0)

\* C2: create_alert repeated right after itself with the same subject, event
\* id, score and reason, while the alert that holds the event is still open
\* and inside the window, changes nothing and inserts no alert.
C2_RepeatedCallIsNoOp ==
  [][ ( /\ IsCreateStep
        /\ resp.op = "create_alert"
        /\ resp'.args = resp.args
        /\ resp.alert_id \in OpenInWindow(alerts, resp.args.user_id, now)
        /\ InList(resp.args.event_id, alerts[resp.alert_id].event_ids) )
      => alerts' = alerts ]_vars

\* C3: with the subject's open in-window alert at the attachment cap,
\* create_alert for a further event answers consolidated with that alert's
\* id, appends nothing and inserts no alert.
C3_CapReportsMerged ==
  [][ \A i \in 1..Len(alerts) :
        ( /\ IsCreateStep
          /\ OpenInWindow(alerts, resp'.args.user_id, now) = {i}
          /\ Len(alerts[i].event_ids) = MAX_EVENTS_PER_ALERT
          /\ ~InList(resp'.args.event_id, alerts[i].event_ids) )
        => /\ resp'.consolidated
           /\ resp'.alert_id = i
           /\ alerts' = alerts ]_vars

\* C4: create_alert inserts no alert for a subject that has an open alert
\* created inside the window measured from the instant of the call.
C4_NoInsertBesideOpenAlert ==
  [][ ( /\ IsCreateStep
        /\ OpenInWindow(alerts, resp'.args.user_id, now) # {} )
      => Len(alerts') = Len(alerts) ]_vars

\* C5: create_alert for a new event of a subject whose open in-window alert
\* has room inserts no alert, appends the event id to that alert's list and
\* raises its score to the maximum of the old score and the event's score.
C5_MergeAttachesEvent ==
  [][ \A i \in 1..Len(alerts) :
        ( /\ IsCreateStep
          /\ OpenInWindow(alerts, resp'.args.user_id, now) = {i}
          /\ CanAttach(alerts[i], resp'.args.event_id) )
        => /\ Len(alerts') = Len(alerts)
           /\ alerts'[i].event_ids = Append(alerts[i].event_ids, resp'.args.event_id)
           /\ alerts'[i].risk_score = Max(alerts[i].risk_score, resp'.args.risk_score) ]_vars

\* C6: when every open alert of the subject was created longer ago than the
\* window before the call, create_alert appends a new open alert holding only
\* the new event, score and reason, and leaves every existing alert as it was.
C6_ExpiredWindowNewAlert ==
  [][ ( /\ IsCreateStep
        /\ OpenAlertsOf(alerts, resp'.args.user_id) # {}
        /\ \A i \in OpenAlertsOf(alerts, resp'.args.user_id) :
             alerts[i].created_at < now - ALERT_CONSOLIDATION_WINDOW_MINUTES )
      => /\ ~resp'.consolidated
         /\ alerts' = Append(alerts,
              [id |-> Len(alerts) + 1, user_id |-> resp'.args.user_id,
               event_ids |-> <<resp'.args.event_id>>,
               risk_score |-> resp'.args.risk_score, reason |-> resp'.args.reason,
               status |-> "open", created_at |-> now, updated_at |-> now]) ]_vars

\* a second alert was created beside an open alert of the same subject that
\* is older than the window
C6_Witness ==
  /\ resp.op = "create_alert" /\ ~resp.consolidated
  /\ \E i \in 1..Len(alerts) :
       /\ i # resp.alert_id
       /\ alerts[i].user_id = resp.args.user_id
       /\ alerts[i].status = "open"
       /\ alerts[i].created_at
            < alerts[resp.alert_id].created_at - ALERT_CONSOLIDATION_WINDOW_MINUTES

\* C8: every alert's event_ids list has no duplicate and at most
\* MAX_EVENTS_PER_ALERT entries.
C8_EventIdsDedupBounded ==
  \A i \in 1..Len(alerts) :
    /\ Len(alerts[i].event_ids) <= MAX_EVENTS_PER_ALERT
    /\ \A k \in 1..Len(alerts[i].event_ids) : \A l \in 1..Len(alerts[i].event_ids) :
         k # l => alerts[i].event_ids[k] # alerts[i].event_ids[l]

\* an alert is at the cap and a request for a further event of its subject
\* has been answered
C8_Witness ==
  /\ resp.op = "create_alert"
  /\ \E i \in 1..Len(alerts) :
       /\ Len(alerts[i].event_ids) = MAX_EVENTS_PER_ALERT
       /\ alerts[i].user_id = resp.args.user_id
       /\ ~InList(resp.args.event_id, alerts[i].event_ids)

\* C9: no step lowers the risk_score of an alert.
C9_RiskScoreMonotone ==
  [][ \A i \in 1..Len(alerts) : alerts'[i].risk_score >= alerts[i].risk_score ]_vars

\* an event with a lower score was merged into an alert that kept its score
C9_Witness ==
  /\ resp.op = "create_alert" /\ resp.consolidated
  /\ alerts[resp.alert_id].risk_score > resp.args.risk_score

\* ====================================================================
\* Properties of ingestion and assessment
\* ====================================================================
\* this step is an ingestion request that stored its event
IsAcceptedIngest == calls' = calls + 1 /\ Len(events') = Len(events) + 1

\* C7: after ingest_event has stored an event assessed at or above the
\* threshold, an open alert of its subject holds the event's id; ingesting an
\* event assessed below the threshold leaves the alert table as it was.
C7_IngestDrivesAlerting ==
  [][ IsAcceptedIngest =>
        LET e == events'[Len(events')]
        IN /\ e.risk_score >= FRAUD_THRESHOLD =>
                \E i \in 1..Len(alerts') :
                  /\ alerts'[i].user_id = e.user_id
                  /\ alerts'[i].status = "open"
                  /\ InList(e.id, alerts'[i].event_ids)
           /\ (e.risk_score # NoScore /\ e.risk_score < FRAUD_THRESHOLD) =>
                alerts' = alerts ]_vars

\* C10: every stored risk score lies between 0 and 1 (0 and 10 tenths).
C10_StoredScoreInUnitInterval ==
  \A i \in 1..Len(events) :
    events[i].risk_score # NoScore =>
      (events[i].risk_score >= 0 /\ events[i].risk_score <= 10)

\* an event was ingested whose rule additions exceed 1.0 and whose stored
\* score is the clamped 1.0
C10_Witness ==
  /\ iresp.status = "accepted"
  /\ events[iresp.event_id].risk_score = 10
  /\ LoginTier(FailedLogins(events[iresp.event_id], events))
       + TwoFaTier(Failed2fa(events[iresp.event_id], events)) > 10
  /\ events[iresp.event_id].fraud_reason[1] # "[BAML] "

\* ====================================================================
\* Properties of the detector
\* ====================================================================
\* a call of analyze_event has returned
Assessed == assessed.op = "analyze"

\* the returned assessment was built by _rule_based_analysis
ByRules ==
  /\ Assessed
  /\ assessed.result.confidence = 10
  /\ assessed.result.reason[1] # "[BAML] "

\* the store the call read
AssessedStore ==
  IF assessed.appended
    THEN Append(events, EventRow(Len(events) + 1, assessed.ev))
    ELSE events

\* the subject's events of a kind in the table, other than the assessed event
\* itself, with T - 5 <= timestamp < T
WindowCount(kind) ==
  Cardinality({ i \in 1..Len(events) :
                  /\ events[i].user_id = assessed.ev.user_id
                  /\ events[i].event_type = kind
                  /\ assessed.ev.timestamp - 5 <= events[i].timestamp
                  /\ events[i].timestamp < assessed.ev.timestamp })

\* the additions the specification gives for F failed logins and T2 failed
\* 2FA attempts
FailedLoginAddition(f) ==
  IF f <= 2 THEN 0 ELSE IF f <= 5 THEN 3 ELSE IF f <= 10 THEN 5 ELSE 7

Failed2faAddition(t2) ==
  IF t2 <= 2 THEN 0 ELSE IF t2 <= 5 THEN 4 ELSE IF t2 <= 10 THEN 6 ELSE 8

\* the subject's login_success rows strictly before T
EarlierLogins ==
  { i \in 1..Len(events) :
      /\ events[i].user_id = assessed.ev.user_id
      /\ events[i].event_type = "login_success"
      /\ events[i].timestamp < assessed.ev.timestamp }

C14_NoChangeWithoutEarlierLogin ==
  ( /\ Assessed
    /\ assessed.ev.ip_address # None /\ assessed.ev.user_agent # None
    /\ EarlierLogins = {} )
  => /\ ~assessed.ip_changed
     /\ ~assessed.ua_changed
     /\ ByRules =>
          assessed.result.risk_score =
            Min(10, FailedLoginAddition(WindowCount("login_failure"))
                      + Failed2faAddition(WindowCount("2fa_failure")))

\* the subject's first login_success, itself stored, was assessed from another
\* IP and user agent than those of a login_success stored at or after T
C14_Witness ==
  /\ ByRules
  /\ assessed.appended
  /\ assessed.ev.event_type = "login_success"
  /\ EarlierLogins = {}
  /\ \E i \in 1..Len(events) :
       /\ events[i].user_id = assessed.ev.user_id
       /\ events[i].event_type = "login_success"
       /\ events[i].ip_address # None
       /\ events[i].ip_address # assessed.ev.ip_address
       /\ events[i].user_agent # assessed.ev.user_agent
  /\ assessed.ev.ip_address # None /\ assessed.ev.user_agent # None

\* C15: when the subject's most recent login_success before T has IP A and
\* the event has another IP, the same user agent and fewer than 3 failed
\* logins and 3 failed 2FA attempts in the window, the rule-based score is 0.2
\* and the reason is "IP address changed from previous login".
C15_IpChangeAlone ==
  ( /\ ByRules
    /\ EarlierLogins # {}
    /\ assessed.ev.ip_address # None
    /\ \A i \in EarlierLogins :
         (\A j \in EarlierLogins : events[j].timestamp <= events[i].timestamp)
           => /\ events[i].ip_address # None
              /\ events[i].ip_address # assessed.ev.ip_address
              /\ events[i].user_agent = assessed.ev.user_agent
    /\ WindowCount("login_failure") < 3
    /\ WindowCount("2fa_failure") < 3 )
  => /\ assessed.result.risk_score = 2
     /\ assessed.result.reason = <<"IP address changed from previous login">>

\* the event came from the IP of an older login but not of the latest one
C15_Witness ==
  /\ ByRules
  /\ assessed.result.risk_score = 2
  /\ assessed.result.reason = <<"IP address changed from previous login">>
  /\ \E i \in EarlierLogins : events[i].ip_address = assessed.ev.ip_address
  /\ \E i \in EarlierLogins :
       /\ \A j \in EarlierLogins : events[j].timestamp <= events[i].timestamp
       /\ events[i].ip_address # assessed.ev.ip_address

\* C16: in every rule-based assessment the notification flag is set exactly
\* when the clamped score is at or above the threshold.
C16_FlagIffAtThreshold ==
  ByRules =>
    (assessed.result.email_notification <=> assessed.result.risk_score >= 7)

\* a score equal to the threshold set the flag
C16_Witness ==
  /\ ByRules
  /\ assessed.result.risk_score = 7
  /\ assessed.result.email_notification

C18_AssessorResultUsedIffWellFormed ==
  ( /\ Assessed
    /\ assessed.enabled
    /\ assessed.out.avail = "yes" )
  => IF /\ assessed.out.kind = "result"
        /\ 0 <= assessed.out.risk_score /\ assessed.out.risk_score <= 10
        /\ 0 <= assessed.out.confidence /\ assessed.out.confidence <= 10
       THEN /\ assessed.result.risk_score = assessed.out.risk_score
            /\ assessed.result.confidence = assessed.out.confidence
            /\ assessed.result.reason = <<"[BAML] ">> \o assessed.out.reason
       ELSE assessed.result =
              rule_based_analysis(assessed.ev, AssessedStore, assessed.ip_changed,
                                  assessed.ua_changed)

\* the assessor answered with a score above 1 and the rules' assessment was
\* returned
C18_Witness ==
  /\ Assessed
  /\ assessed.enabled
  /\ assessed.out.avail = "yes" /\ assessed.out.kind = "result"
  /\ assessed.out.risk_score > 10
  /\ assessed.result.confidence = 10
  /\ assessed.result.reason[1] # "[BAML] "

C20_AppendOnly ==
  [][ /\ Len(events') >= Len(events)
      /\ \A i \in 1..Len(events) :
           /\ events'[i].id = events[i].id
           /\ events'[i].user_id = events[i].user_id
           /\ events'[i].event_type = events[i].event_type
           /\ events'[i].ip_address = events[i].ip_address
           /\ events'[i].user_agent = events[i].user_agent
           /\ events'[i].timestamp = events[i].timestamp ]_vars

\* a request failed at its append while the store held events
C20_Witness ==
  /\ iresp.code = 500
  /\ iresp.fault = "append"
  /\ Len(events) > 0

\* C21: once a stored event carries a risk_score, no step changes its
\* risk_score, fraud_reason or analyzed_at, the ingestion of further events of
\* the same subject included.
C21_AssessedOnce ==
  [][ \A i \in 1..Len(events) :
        events[i].risk_score # NoScore =>
          /\ i <= Len(events')
          /\ events'[i].risk_score = events[i].risk_score
          /\ events'[i].fraud_reason = events[i].fraud_reason
          /\ events'[i].analyzed_at = events[i].analyzed_at ]_vars

\* an event was ingested and scored above zero while earlier events of its
\* subject were already assessed
C21_Witness ==
  /\ iresp.status = "accepted"
  /\ iresp.event_id > 1
  /\ events[iresp.event_id].risk_score > 0
  /\ \E j \in 1..(iresp.event_id - 1) :
       /\ events[j].user_id = events[iresp.event_id].user_id
       /\ events[j].risk_score = 0

\* this step is a completed status update
IsUpdateStep == calls' = calls + 1 /\ resp'.op = "update"

\* C24: a status update naming a stored alert and one of open, reviewed,
\* resolved sets that alert's status to the requested value whatever it was
\* and touches no other alert; one naming no stored alert answers not-found
\* and one carrying another status is rejected, both leaving every alert as
\* it was.
C24_StatusUpdate ==
  [][ IsUpdateStep =>
        LET id == resp'.alert_id
            st == resp'.args.status
        IN IF st \notin Statuses
             THEN resp'.code = 422 /\ alerts' = alerts
             ELSE IF id \notin 1..Len(alerts)
               THEN resp'.code = 404 /\ alerts' = alerts
               ELSE /\ resp'.code = 200
                    /\ Len(alerts') = Len(alerts)
                    /\ alerts'[id].status = st
                    /\ \A j \in 1..Len(alerts) : j # id => alerts'[j] = alerts[j] ]_vars

\* an alert was set to open by an accepted update later than its creation
C24_Witness ==
  /\ resp.op = "update"
  /\ resp.code = 200
  /\ resp.args.status = "open"
  /\ alerts[resp.alert_id].status = "open"
  /\ alerts[resp.alert_id].updated_at > alerts[resp.alert_id].created_at

\* C25: a reviewed or resolved alert is left as it is by every step that is
\* not a status update naming it; a create_alert request that finds alerts of
\* the subject inside the window, none of them open, answers with a new open
\* alert.
C25_ClosedAlertUntouched ==
  [][ /\ \A i \in 1..Len(alerts) :
           ( /\ alerts[i].status \in {"reviewed", "resolved"}
             /\ ~(IsUpdateStep /\ resp'.alert_id = i) )
           => (i <= Len(alerts') /\ alerts'[i] = alerts[i])
      /\ ( /\ IsCreateStep
           /\ OpenInWindow(alerts, resp'.args.user_id, now) = {}
           /\ \E i \in 1..Len(alerts) :
                /\ alerts[i].user_id = resp'.args.user_id
                /\ alerts[i].created_at >= now - ALERT_CONSOLIDATION_WINDOW_MINUTES )
         => /\ ~resp'.consolidated
            /\ Len(alerts') = Len(alerts) + 1
            /\ resp'.alert_id = Len(alerts')
            /\ alerts'[Len(alerts')].status = "open"
            /\ alerts'[Len(alerts')].user_id = resp'.args.user_id ]_vars

\* a new alert was created beside a reviewed or resolved alert of the same
\* subject that is inside the window
C25_Witness ==
  /\ resp.op = "create_alert"
  /\ ~resp.consolidated
  /\ \E j \in 1..Len(alerts) :
       /\ j # resp.alert_id
       /\ alerts[j].user_id = resp.args.user_id
       /\ alerts[j].status \in {"reviewed", "resolved"}
       /\ alerts[j].created_at >= alerts[resp.alert_id].created_at
                                    - ALERT_CONSOLIDATION_WINDOW_MINUTES

\* C30: a create_alert request that merges does so into an open alert of the
\* subject created inside the window, and into the most recently created of
\* them.
C30_MergeIntoMostRecent ==
  [][ (IsCreateStep /\ resp'.consolidated) =>
        LET cands == OpenInWindow(alerts, resp'.args.user_id, now)
        IN /\ resp'.alert_id \in cands
           /\ \A j \in cands :
                alerts[j].created_at <= alerts[resp'.alert_id].created_at ]_vars

\* C30, the part the code keeps: the merge target is an open alert of the
\* subject created inside the window.
C30_MergeTargetOpenInWindow ==
  [][ (IsCreateStep /\ resp'.consolidated) =>
        resp'.alert_id \in OpenInWindow(alerts, resp'.args.user_id, now) ]_vars

\* the assessed events an answered assessment query asked for
AskedAssessed ==
  { i \in 1..Len(events) :
      /\ events[i].risk_score # NoScore
      /\ qresp.q.user_id # NoUser => events[i].user_id = qresp.q.user_id
      /\ qresp.q.min_risk_score # NoScore => events[i].risk_score >= qresp.q.min_risk_score
      /\ qresp.q.max_risk_score # NoScore => events[i].risk_score <= qresp.q.max_risk_score
      /\ qresp.q.start_date # NoDate => events[i].timestamp >= qresp.q.start_date
      /\ qresp.q.end_date # NoDate => events[i].timestamp <= qresp.q.end_date }

\* C22: the statistics of an answered assessment query count the assessed
\* events that pass the filters: high the scores above 0.7, medium those
\* above 0.4 and at most 0.7, low those at most 0.4; the three add up to the
\* total; the average is their mean to four decimals; for no such event the
\* counts and the average are 0.
C22_StatisticsBands ==
  (qresp.op = "assessments" /\ qresp.code = 200) =>
    LET n == Cardinality(AskedAssessed)
        st == qresp.stats
    IN /\ st.total_events = n
       /\ st.high_risk_events =
            Cardinality({ i \in AskedAssessed : events[i].risk_score > 7 })
       /\ st.medium_risk_events =
            Cardinality({ i \in AskedAssessed :
                            events[i].risk_score > 4 /\ events[i].risk_score <= 7 })
       /\ st.low_risk_events =
            Cardinality({ i \in AskedAssessed : events[i].risk_score <= 4 })
       /\ st.high_risk_events + st.medium_risk_events + st.low_risk_events = n
       /\ IF n = 0 THEN st.average_risk_score = 0
          ELSE LET d == 2 * n * st.average_risk_score
                          - 2000 * SumScores(AskedAssessed, events)
               IN d >= 0 - n /\ d <= n

\* the scores 0.1, 0.5 and 0.8 were summarised beside unassessed events of
\* the same subject: one per band, average 0.4667
C22_Witness ==
  /\ qresp.op = "assessments"
  /\ qresp.code = 200
  /\ qresp.stats = [total_events |-> 3, high_risk_events |-> 1,
                    medium_risk_events |-> 1, low_risk_events |-> 1,
                    average_risk_score |-> 4667]
  /\ \E i \in 1..Len(events) :
       events[i].risk_score = NoScore /\ events[i].user_id = 1

\* C23: an assessment query with both bounds supplied and min_risk_score
\* above max_risk_score is answered with a validation error, without a read
\* of the store and without items or statistics.
C23_InvertedRangeRejected ==
  ( /\ qresp.op = "assessments"
    /\ qresp.q.min_risk_score # NoScore
    /\ qresp.q.max_risk_score # NoScore
    /\ qresp.q.min_risk_score > qresp.q.max_risk_score )
  => /\ qresp.code \in {400, 422}
     /\ qresp.reads = 0
     /\ qresp.items = <<>>
     /\ qresp.stats = NoStats

\* min 0.7 above max 0.4 was answered 400 over a store holding matching
\* events, while the database was failing
C23_Witness ==
  /\ qresp.op = "assessments"
  /\ qresp.code = 400
  /\ qresp.q.min_risk_score = 7
  /\ qresp.q.max_risk_score = 4
  /\ qresp.q.start_date = NoDate
  /\ qresp.q.end_date = NoDate
  /\ qresp.fault
  /\ Len(events) > 0

\* the events an answered event query asked for, the end bound exclusive
AskedEvents ==
  { i \in 1..Len(events) :
      /\ qresp.q.user_id # NoUser => events[i].user_id = qresp.q.user_id
      /\ qresp.q.event_type # None => events[i].event_type = qresp.q.event_type
      /\ qresp.q.start_date # NoDate => events[i].timestamp >= qresp.q.start_date
      /\ qresp.q.end_date # NoDate => events[i].timestamp < qresp.q.end_date }

\* items is the page of `limit` rows from `offset` of an ordering of the
\* rows S by timestamp descending
IsPageOf(items, S, limit, offset) ==
  /\ Len(items) <= limit
  /\ \E ord \in Orders(S, [i \in S |-> events[i].timestamp]) :
       items = Page(ord, limit, offset)

\* C26: an answered event query returns the stored events of the asked
\* subject and kind with start <= timestamp < end, by timestamp descending;
\* total counts them all and the page holds at most limit of them from
\* offset.
C26_EventQuery ==
  (qresp.op = "events" /\ qresp.code = 200) =>
    /\ qresp.total = Cardinality(AskedEvents)
    /\ IsPageOf(qresp.items, AskedEvents, qresp.q.limit, qresp.q.offset)

\* C26 with the end bound the code applies, timestamp <= end
C26_EventQueryClosedEnd ==
  (qresp.op = "events" /\ qresp.code = 200) =>
    /\ qresp.total = Cardinality(EventFilters(events, qresp.q))
    /\ IsPageOf(qresp.items, EventFilters(events, qresp.q), qresp.q.limit,
                qresp.q.offset)

\* this step is a completed auth request of the given kind
IsAuthStep(op) == calls' = calls + 1 /\ aresp'.op = op

\* the failed verify attempts of a user in the trailing 15 minutes
RecentFailures(user_id) ==
  { i \in 1..Len(totp_attempts) :
      /\ totp_attempts[i].user_id = user_id
      /\ ~totp_attempts[i].success
      /\ totp_attempts[i].attempted_at > now - RATE_LIMIT_MINUTES }

\* C27: a verify request carrying a 6-digit code for a user with 2FA enabled
\* is answered 429, with no attempt recorded, once the user has 5 failed
\* attempts in the trailing 15 minutes, and is not answered 429 before that;
\* older failures, successes and other users' attempts do not count.
C27_TotpRateLimit ==
  [][ ( /\ IsAuthStep("verify")
        /\ aresp'.args.code \in SixDigitCodes
        /\ ByUsername(aresp'.args.username) # {}
        /\ LET user == users[CHOOSE i \in ByUsername(aresp'.args.username) : TRUE]
           IN user.is_2fa_enabled /\ user.totp_secret # None )
      => LET user == users[CHOOSE i \in ByUsername(aresp'.args.username) : TRUE]
         IN IF Cardinality(RecentFailures(user.id)) >= RATE_LIMIT_ATTEMPTS
              THEN aresp'.code = 429 /\ totp_attempts' = totp_attempts
              ELSE aresp'.code # 429 ]_vars

\* C27, the part the code keeps: a user with fewer than 5 recent failures is
\* never answered 429.
C27_NoLimitBelowFive ==
  [][ ( /\ IsAuthStep("verify")
        /\ ByUsername(aresp'.args.username) # {}
        /\ LET user == users[CHOOSE i \in ByUsername(aresp'.args.username) : TRUE]
           IN Cardinality(RecentFailures(user.id)) < RATE_LIMIT_ATTEMPTS )
      => aresp'.code # 429 ]_vars

\* C28: a confirm request succeeds exactly for a stored token that is unused
\* and not past its expiry, and then sets the password of the token's user
\* and marks the token used in the same step; any other confirm, one
\* repeating a token included, is answered 400 and leaves users and tokens
\* as they were.
C28_ResetTokenSingleUse ==
  [][ IsAuthStep("reset_confirm") =>
        LET t == aresp'.args.token
            good == /\ t \in 1..Len(reset_tokens)
                    /\ ~reset_tokens[t].used
                    /\ reset_tokens[t].expires_at >= now
        IN IF good
             THEN /\ aresp'.code = 200
                  /\ reset_tokens'[t].used
                  /\ verify_password(aresp'.args.password,
                                     users'[reset_tokens[t].user_id].password)
                  /\ \A u \in 1..Len(users) :
                       u # reset_tokens[t].user_id => users'[u] = users[u]
             ELSE /\ aresp'.code = 400
                  /\ users' = users
                  /\ reset_tokens' = reset_tokens ]_vars

\* a token that had set a password was presented again with another
\* password and refused
C28_Witness ==
  /\ aresp.op = "reset_confirm"
  /\ aresp.code = 400
  /\ aresp.args.token \in 1..Len(reset_tokens)
  /\ reset_tokens[aresp.args.token].used
  /\ LET pw == users[reset_tokens[aresp.args.token].user_id].password
     IN /\ ~verify_password("pw", pw)
        /\ ~verify_password(aresp.args.password, pw)

\* C29: a login with the right password answers requires2fa, without a
\* token and without logging an event, while the user's 2FA is enabled, and
\* answers with a token when it is not; a successful disable leaves 2FA
\* disabled and the secret cleared; a disable or enroll with a wrong
\* password changes no user.
C29_TwoStepLogin ==
  [][ /\ ( /\ IsAuthStep("login")
           /\ ByUsername(aresp'.args.username) # {}
           /\ LET user == users[CHOOSE i \in ByUsername(aresp'.args.username) : TRUE]
              IN verify_password(aresp'.args.password, user.password) )
         => LET user == users[CHOOSE i \in ByUsername(aresp'.args.username) : TRUE]
            IN IF user.is_2fa_enabled
                 THEN /\ ~aresp'.access_token
                      /\ aresp'.requires2fa
                      /\ auth_events' = auth_events
                 ELSE aresp'.access_token /\ aresp'.code = 200
      /\ (IsAuthStep("disable") /\ aresp'.code = 200)
         => LET u == CHOOSE i \in ByUsername(aresp'.args.username) : TRUE
            IN ~users'[u].is_2fa_enabled /\ users'[u].totp_secret = None
      /\ ( /\ (IsAuthStep("disable") \/ IsAuthStep("enroll"))
           /\ \A i \in ByUsername(aresp'.args.username) :
                ~verify_password(aresp'.args.password, users[i].password) )
         => aresp'.code = 401 /\ users' = users ]_vars

\* a login returned a token for a user whose 2FA had been disabled
C29_Witness ==
  /\ aresp.op = "login"
  /\ aresp.access_token
  /\ \E i \in ByUsername(aresp.args.username) :
       ~users[i].is_2fa_enabled /\ users[i].totp_secret = None

\* ====================================================================
\* Further properties of the alert table
\* ====================================================================
\* C31: a merge leaves the alert's reason as it was when the new reason is a
\* substring of it, and otherwise makes it the old reason, "; " and the new
\* reason; merging a reason the alert already holds does not lengthen it.
C31_ReasonAppendedOnce ==
  [][ (IsCreateStep /\ resp'.consolidated) =>
        LET old == alerts[resp'.alert_id].reason
            new == resp'.args.reason
            held == \E k \in 0..(Len(old) - Len(new)) :
                      \A m \in 1..Len(new) : old[k + m] = new[m]
        IN IF held
             THEN alerts'[resp'.alert_id].reason = old
             ELSE alerts'[resp'.alert_id].reason = old \o <<";", " ">> \o new ]_vars

\* a reason the alert already held after an earlier merge was merged again
\* and the reason stayed as the earlier merge left it
C31_Witness ==
  /\ calls = 2
  /\ resp.op = "create_alert"
  /\ resp.consolidated
  /\ resp.args.reason = <<"x", "y">>
  /\ alerts[resp.alert_id].reason = <<"x", ";", " ", "x", "y">>
  /\ Len(alerts[resp.alert_id].event_ids) >= 3

\* C32: an alert's risk_score is the maximum of the scores passed for the
\* events of its event_ids, step by step: a new alert holds its one event and
\* that event's score, a merge raises the score to the maximum with the new
\* score exactly when it puts the event on the list, and no other alert's
\* score changes.
C32_ScoreIsMaxOfListedEvents ==
  [][ IsCreateStep =>
        LET a == resp'.args
            i == resp'.alert_id
        IN /\ \A j \in 1..Len(alerts) : j # i => alerts'[j].risk_score = alerts[j].risk_score
           /\ IF resp'.consolidated
                THEN alerts'[i].risk_score =
                       IF /\ InList(a.event_id, alerts'[i].event_ids)
                          /\ ~InList(a.event_id, alerts[i].event_ids)
                         THEN Max(alerts[i].risk_score, a.risk_score)
                         ELSE alerts[i].risk_score
                ELSE /\ alerts'[i].event_ids = <<a.event_id>>
                     /\ alerts'[i].risk_score = a.risk_score ]_vars

\* C37: an accepted status update leaves the alert's id, subject, event_ids,
\* risk_score, reason and creation instant, every other alert and every
\* stored event as they were.
C37_StatusUpdateFrame ==
  [][ (IsUpdateStep /\ resp'.code = 200) =>
        LET id == resp'.alert_id
        IN /\ Len(alerts') = Len(alerts)
           /\ alerts'[id].id = alerts[id].id
           /\ alerts'[id].user_id = alerts[id].user_id
           /\ alerts'[id].event_ids = alerts[id].event_ids
           /\ alerts'[id].risk_score = alerts[id].risk_score
           /\ alerts'[id].reason = alerts[id].reason
           /\ alerts'[id].created_at = alerts[id].created_at
           /\ alerts'[id].updated_at = now
           /\ \A j \in 1..Len(alerts) : j # id => alerts'[j] = alerts[j]
           /\ events' = events ]_vars

\* one of two alerts was resolved some time after its creation
C37_Witness ==
  /\ resp.op = "update"
  /\ resp.code = 200
  /\ Len(alerts) >= 2
  /\ alerts[resp.alert_id].status = "resolved"
  /\ alerts[resp.alert_id].updated_at > alerts[resp.alert_id].created_at

\* C34: when two create_alert requests of one subject with distinct event
\* ids have both selected the same open alert, with room for both events,
\* and both have committed, the alert holds both event ids and its score is
\* the maximum of the score they read and both new scores.
C34_NoLostAttachment ==
  \A p \in Procs : \A q \in Procs \ {p} :
    ( /\ sess[p].pc = "done" /\ sess[q].pc = "done"
      /\ sess[p].row # NoRow /\ sess[q].row = sess[p].row
      /\ sess[p].args.user_id = sess[q].args.user_id
      /\ sess[p].args.event_id # sess[q].args.event_id
      /\ ~InList(sess[p].args.event_id, sess[p].row.event_ids)
      /\ ~InList(sess[q].args.event_id, sess[p].row.event_ids)
      /\ Len(sess[p].row.event_ids) + 2 <= MAX_EVENTS_PER_ALERT )
    => LET al == alerts[sess[p].row.id]
       IN /\ InList(sess[p].args.event_id, al.event_ids)
          /\ InList(sess[q].args.event_id, al.event_ids)
          /\ al.risk_score >= Max(sess[p].row.risk_score,
                                  Max(sess[p].args.risk_score, sess[q].args.risk_score))

\* ====================================================================
\* What an assessment depends on
\* ====================================================================
\* the rows of the store the call read that are the subject's and lie
\* strictly before the event
EarlierOfSubject ==
  SelectSeq(AssessedStore,
            LAMBDA r : r.user_id = assessed.ev.user_id
                       /\ r.timestamp < assessed.ev.timestamp)

\* the rows of the store the call read that are the subject's
OfSubject ==
  SelectSeq(AssessedStore, LAMBDA r : r.user_id = assessed.ev.user_id)

\* the assessments the rules give the assessed event over a store
RuleOutcomes(store) ==
  { rule_based_analysis(assessed.ev, store, ipc, uac) :
      ipc \in IpChanged(assessed.ev, store), uac \in UaChanged(assessed.ev, store) }

\* C33: the rule-based assessment of an event is the one the rules give over
\* the subject's stored events strictly before the event alone: the events
\* at or after its timestamp, its own row included, the events of other
\* subjects and the wall clock play no part.
C33_Reproducible ==
  ByRules =>
    /\ assessed.result \in RuleOutcomes(EarlierOfSubject)
    /\ RuleOutcomes(EarlierOfSubject) = RuleOutcomes(AssessedStore)

\* an event was scored above zero by the rules while the store held later
\* events of its subject
C33_Witness ==
  /\ ByRules
  /\ assessed.result.risk_score > 0
  /\ \E i \in 1..Len(events) :
       /\ events[i].user_id = assessed.ev.user_id
       /\ events[i].event_type = "login_failure"
       /\ events[i].timestamp > assessed.ev.timestamp

\* C36: the rule-based assessment of an event is the one the rules give over
\* the stored events of its own subject alone; and a create_alert request
\* answers with an alert of its own subject and leaves every alert of
\* another subject as it was.
C36_SubjectIsolation ==
  /\ [](ByRules =>
          /\ assessed.result \in RuleOutcomes(OfSubject)
          /\ RuleOutcomes(OfSubject) = RuleOutcomes(AssessedStore))
  /\ [][ IsCreateStep =>
           /\ alerts'[resp'.alert_id].user_id = resp'.args.user_id
           /\ resp'.consolidated =>
                alerts[resp'.alert_id].user_id = resp'.args.user_id
           /\ \A j \in 1..Len(alerts) :
                alerts[j].user_id # resp'.args.user_id =>
                  (j <= Len(alerts') /\ alerts'[j] = alerts[j]) ]_vars

\* a request of one subject created an alert while an open alert of the
\* other subject, created inside the window, was in the table
C36_Witness ==
  /\ resp.op = "create_alert"
  /\ ~resp.consolidated
  /\ \E j \in 1..Len(alerts) :
       /\ alerts[j].user_id # resp.args.user_id
       /\ alerts[j].status = "open"
       /\ alerts[j].created_at >= alerts[resp.alert_id].created_at
                                    - ALERT_CONSOLIDATION_WINDOW_MINUTES

\* ====================================================================
\* The notification flag of the assessment listing
\* ====================================================================
\* C35: the flag the listing reports for an event is true exactly when its
\* stored score is at or above the threshold, as the detector and the
\* ingestion decide it; a score equal to the threshold is flagged.
C35_ListedFlagAtThreshold ==
  (qresp.op = "assessments" /\ qresp.code = 200) =>
    \A k \in 1..Len(qresp.items) :
      qresp.email_notification[k]
        <=> events[qresp.items[k]].risk_score >= FRAUD_THRESHOLD

\* ====================================================================
\* Overlapping confirmations of one reset token
\* ====================================================================
\* C38: of two password_reset_confirm requests carrying the same token, at
\* most one is answered 200 and changes the password, also when both read
\* the token before either commits.
C38_TokenHonouredOnce ==
  \A p, q \in Procs :
    (/\ p # q
     /\ confirms[p].pc = "done" /\ confirms[p].code = 200
     /\ confirms[q].pc = "done" /\ confirms[q].code = 200)
      => confirms[p].token # confirms[q].token

====
